---- MODULE Spec2Model ----
(***************************************************************************)
(* State-machine model of the POS automation framework:                    *)
(*   utils/pos_base.py          POSAutomation (input driver primitives)    *)
(*   data/csv_data_manager.py   CSVDataManager (scenario data file)        *)
(*   config/config.py           Config (scenario accessors)                *)
(*   tests/conftest.py, tests/pos_automation/*  fixtures and scenarios     *)
(* The POS application is the environment: its accessibility tree (the     *)
(* buttons, edit fields, lists and popups) changes on its own between any  *)
(* two steps of the driver.                                                *)
(***************************************************************************)
EXTENDS Integers, Sequences, FiniteSets, TLC

(***************************************************************************)
(* Bounds of the model                                                     *)
(***************************************************************************)
\* number of Button controls in the window
NButtons == 2
\* largest timeout (seconds) a caller or the settings file configures
MaxTimeout == 2
\* number of Edit controls in the window
NFields == 2

\* the scenarios file has at most this many rows
MaxRows == 2
\* number of tests that use the session
MaxTests == 2
\* the basket shows at most this many item lines
MaxItems == 2
\* an edit field holds at most this many characters
MaxChars == 21

(***************************************************************************)
(* Values                                                                  *)
(***************************************************************************)
\* results of a call: the two booleans, an exception that propagates to the
\* caller, and "no result yet"
None == "None"
PyTrue == "True"
PyFalse == "False"
Raised == "raised"

\* the value None of the timeout parameter of click_button_by_text
NoTimeout == -1

\* the timeout _clear_ean_field passes for "<<" (line 250)
ClearTimeout == 2

\* values of the timeout argument of click_button_by_text: the default None,
\* the literal of line 250 and the boundary 0
TimeoutArgs == {NoTimeout, 0, ClearTimeout}

\* the Button controls over a set of texts
ButtonsOver(T) == [text : T, visible : BOOLEAN, enabled : BOOLEAN]

VARIABLES
    buttons,         \* win.descendants(control_type="Button"), live controls
    fields,          \* values of win.descendants(control_type="Edit")
    defaultTimeout,  \* config.DEFAULT_TIMEOUT (settings file)
    cb,              \* activation record of click_button_by_text
    ce,              \* activation record of _clear_ean_field
    clicks,          \* every click_input() performed so far, in order
    everMatch,       \* history: a matching visible enabled button existed
                     \* at some moment of the current polling window
    ap,              \* activation record of add_product_by_ean
    ui,              \* the controls of the POS besides the keypad
    ct,              \* activation record of complete_cash_tender
    lg,              \* activation record of login_to_pos
    dm,              \* CSVDataManager: the scenarios file, the cache, a call
    tst              \* a run of the data-driven test

vars == <<buttons, fields, defaultTimeout, cb, ce, clicks, everMatch, ap, ui, ct,
          lg, dm, tst>>

\* the state of the keypad primitives (click_button_by_text, _clear_ean_field)
keypadVars == <<buttons, fields, defaultTimeout, cb, ce, everMatch>>

\* the state of their callers, which the keypad primitives leave alone
outerVars == <<ap, ui, ct, lg, dm, tst>>

\* what add_product_by_ean, complete_cash_tender and login_to_pos leave alone
\* besides the keypad
notAdd == <<ui, ct, lg, dm, tst>>
notTender == <<ap, lg, dm, tst>>
notLogin == <<ap, ct, dm, tst>>
notData == <<ap, ui, ct, lg, tst>>
notTest == <<ap, ct, lg>>
notSession == <<ap, ct, dm>>

(***************************************************************************)
(* Text values: a string is the sequence of its characters.                *)
(***************************************************************************)
Whitespace == {" "}

RECURSIVE LStrip(_)
LStrip(s) ==
    IF s = <<>> THEN <<>>
    ELSE IF Head(s) \in Whitespace THEN LStrip(Tail(s)) ELSE s

RECURSIVE RStrip(_)
RStrip(s) ==
    IF s = <<>> THEN <<>>
    ELSE IF s[Len(s)] \in Whitespace THEN RStrip(SubSeq(s, 1, Len(s) - 1)) ELSE s

\* a value used without strip()
StripMutIdentity(s) == s

\* str.strip()
Strip(s) == RStrip(LStrip(s))

\* the truth value of a str: non-empty
Truthy(s) == s # <<>>

\* activation record of add_product_by_ean when no call has started
apIdle == [pc |-> "idle", ean |-> <<>>, idx |-> 0, result |-> None, clicks0 |-> 0]

\* activation record of complete_cash_tender when no call has started.  q is
\* the number of UI queries answered, sawTender, sawItems and sawPopup are
\* the answers (tender_btn.exists(), list_items, the texts of the popup's
\* buttons), threw tells that a query or a click raised
ctIdle == [pc |-> "idle", result |-> None, q |-> 0, threw |-> FALSE,
           sawTender |-> FALSE, sawItems |-> <<>>, sawPopup |-> <<>>]

\* the other controls, in a specification that does not look at them
uiOff == [screen |-> "off"]

\* activation record of login_to_pos when no call has started
lgIdle == [pc |-> "idle", username |-> <<>>, password |-> <<>>, result |-> None, lookups |-> <<>>]

\* the values of the cells of a scenario record: a str, a float (kept in
\* hundredths), an int, or None
PyStr(s) == [t |-> "str", s |-> s, n |-> 0]
PyFloat(n) == [t |-> "float", s |-> <<>>, n |-> n]
PyInt(n) == [t |-> "int", s |-> <<>>, n |-> n]
PyNone == [t |-> "none", s |-> <<>>, n |-> 0]

\* the columns of the scenarios file
fieldnames ==
    <<"scenario_name", "user_name", "password", "ean_code", "item_name",
      "expected_price", "cash_tender_amount", "loyalty_number", "promotion_code",
      "quantity">>

\* what stands for "no record" where a record is expected
NoRecord ==
    [scenario_name |-> PyNone, user_name |-> PyNone, password |-> PyNone,
     ean_code |-> PyNone, item_name |-> PyNone, expected_price |-> PyNone,
     cash_tender_amount |-> PyNone, loyalty_number |-> PyNone,
     promotion_code |-> PyNone, quantity |-> PyNone]

\* no call of the data manager has been made
NoCall ==
    [op |-> "none", arg |-> <<>>, ret |-> None, found |-> FALSE, rec |-> NoRecord,
     list |-> <<>>, names |-> <<>>, hit |-> FALSE]

\* CSVDataManager.__init__: the cache is None; here with no scenarios file
dmIdle ==
    [file |-> [exists |-> FALSE, headed |-> TRUE, rows |-> <<>>],
     cache |-> [set |-> FALSE, rows |-> <<>>],
     last |-> NoCall]

\* a POSAutomation that has no scenario
NoScenario == [scenario_name |-> PyNone, scenario_data |-> [found |-> FALSE, rec |-> NoRecord]]

\* no test is running
tstIdle ==
    [pc |-> "idle", param |-> PyNone, test_name |-> <<>>, pos |-> NoScenario,
     outcome |-> "none", calls |-> <<>>]

\* the data manager and the test runner are not in use
DataIdle == dm = dmIdle /\ tst = tstIdle

\* the callers of the keypad primitives and the other controls are not in use
OuterIdle == ap = apIdle /\ ui = uiOff /\ ct = ctIdle /\ lg = lgIdle /\ DataIdle

\* the keypad is not in use
KeypadIdle ==
    /\ buttons = <<>>
    /\ fields = <<>>
    /\ defaultTimeout = 0
    /\ cb = [pc |-> "idle", button_text |-> "", timeout |-> 0, elapsed |-> 0,
             i |-> 0, target |-> 0, result |-> None]
    /\ ce = [pc |-> "idle", attempt |-> 0, f |-> 0, cleared |-> FALSE,
             reported |-> 0, calls |-> 0, emptyAtCall |-> FALSE,
             fields0 |-> <<>>, clicks0 |-> 0]
    /\ everMatch = FALSE

(***************************************************************************)
(* click_button_by_text  (utils/pos_base.py 190-214)                       *)
(***************************************************************************)
\* activation record of a call that has not started
cbIdle == [pc |-> "idle", button_text |-> "", timeout |-> 0, elapsed |-> 0,
           i |-> 0, target |-> 0, result |-> None]

\* the test of lines 200-201 on one control
MatchesMutNoEnabled(btn, button_text) ==
    btn.text = button_text /\ btn.visible

Matches(btn, button_text) ==
    btn.text = button_text /\ btn.visible /\ btn.enabled

\* some control passes the test right now
MatchNow(bs, button_text) ==
    \E k \in 1 .. Len(bs) : bs[k].text = button_text /\ bs[k].visible /\ bs[k].enabled

\* the polling window: from the first evaluation of the while condition
\* to the exit of the loop
Polling == cb.pc \in {"while", "scan"}

\* lines 192-196: default of the timeout, start_time, target_button = None
cbEnter(button_text, timeout) ==
    [pc |-> "while", button_text |-> button_text,
     timeout |-> IF timeout = NoTimeout THEN defaultTimeout ELSE timeout,
     elapsed |-> 0, i |-> 0, target |-> 0, result |-> None]

\* line 197-198: while time.time() - start_time < timeout; list the buttons
CB_While ==
    /\ cb.pc = "while"
    /\ cb' = IF cb.elapsed < cb.timeout
               THEN [cb EXCEPT !.pc = "scan", !.i = 1]
               ELSE [cb EXCEPT !.pc = "after"]
    /\ everMatch' = (everMatch \/ (cb.elapsed < cb.timeout /\ MatchNow(buttons, cb.button_text)))
    /\ UNCHANGED <<buttons, fields, defaultTimeout, ce, clicks>>
    /\ UNCHANGED outerVars

\* the for loop as below, but the sleep at its end does not advance the
\* time the while condition reads
CB_ScanMutNoClock ==
    /\ cb.pc = "scan"
    /\ cb' = IF cb.i > Len(buttons)
               THEN [cb EXCEPT !.pc = "while"]
               ELSE IF Matches(buttons[cb.i], cb.button_text)
                      THEN [cb EXCEPT !.pc = "after", !.target = cb.i]
                      ELSE [cb EXCEPT !.i = cb.i + 1]
    /\ everMatch' = (everMatch \/ MatchNow(buttons, cb.button_text))
    /\ UNCHANGED <<buttons, fields, defaultTimeout, ce, clicks>>
    /\ UNCHANGED outerVars

\* lines 199-206: one iteration of the for loop, or its end and sleep(1)
CB_Scan ==
    /\ cb.pc = "scan"
    /\ cb' = IF cb.i > Len(buttons)
               THEN [cb EXCEPT !.pc = "while", !.elapsed = cb.elapsed + 1]
               ELSE IF Matches(buttons[cb.i], cb.button_text)
                      THEN [cb EXCEPT !.pc = "after", !.target = cb.i]
                      ELSE [cb EXCEPT !.i = cb.i + 1]
    /\ everMatch' = (everMatch \/ MatchNow(buttons, cb.button_text))
    /\ UNCHANGED <<buttons, fields, defaultTimeout, ce, clicks>>
    /\ UNCHANGED outerVars

\* The POS reacts to a click on an active "<<" button: it removes the last
\* character of a non-empty edit field.
BackspaceOutcomes(fs) ==
    IF \A j \in 1 .. Len(fs) : fs[j] = <<>>
      THEN {fs}
      ELSE {[fs EXCEPT ![k] = SubSeq(fs[k], 1, Len(fs[k]) - 1)] :
              k \in {j \in 1 .. Len(fs) : fs[j] # <<>>}}

\* lines 208-214: click the target found, or report the timeout
CB_After ==
    /\ cb.pc = "after"
    /\ IF cb.target # 0
         THEN /\ clicks' = Append(clicks, [by |-> "click_button_by_text",
                                           wanted |-> cb.button_text,
                                           text |-> buttons[cb.target].text,
                                           visible |-> buttons[cb.target].visible,
                                           enabled |-> buttons[cb.target].enabled])
              /\ cb' = [cb EXCEPT !.pc = "done", !.result = PyTrue]
              /\ IF buttons[cb.target] = [text |-> "<<", visible |-> TRUE, enabled |-> TRUE]
                   THEN fields' \in BackspaceOutcomes(fields)
                   ELSE fields' = fields
         ELSE /\ clicks' = clicks
              /\ cb' = [cb EXCEPT !.pc = "done", !.result = PyFalse]
              /\ fields' = fields
    /\ UNCHANGED <<buttons, defaultTimeout, ce, everMatch>>
    /\ UNCHANGED outerVars

(***************************************************************************)
(* The POS application: a control changes text, visibility or enabled      *)
(* state on its own; T is the set of texts its buttons can show.           *)
(***************************************************************************)
UIChangeIn(T) ==
    /\ \E k \in 1 .. Len(buttons) :
          \E s \in {[buttons[k] EXCEPT !.visible = ~buttons[k].visible],
                    [buttons[k] EXCEPT !.enabled = ~buttons[k].enabled]}
                   \cup {[buttons[k] EXCEPT !.text = t] : t \in T \ {buttons[k].text}} :
              buttons' = [buttons EXCEPT ![k] = s]
    /\ everMatch' = (everMatch \/ (Polling /\ MatchNow(buttons', cb.button_text)))

(***************************************************************************)
(* _clear_ean_field  (utils/pos_base.py 240-254)                           *)
(***************************************************************************)
\* line 242
max_clear_attempts == 20

\* activation record of a call that has not started.  attempt counts the
\* passes of the for loop begun, f is the edit field under test, reported
\* the number of "[SUCCESS] EAN field cleared." lines printed; calls,
\* emptyAtCall, fields0 and clicks0 record the call's number and the state
\* of the window when it began.
ceIdle == [pc |-> "idle", attempt |-> 0, f |-> 0, cleared |-> FALSE,
           reported |-> 0, calls |-> 0, emptyAtCall |-> FALSE,
           fields0 |-> <<>>, clicks0 |-> 0]

\* every edit field is empty or holds whitespace only
AllEmpty(fs) == \A k \in 1 .. Len(fs) : \A j \in 1 .. Len(fs[k]) : fs[k][j] \in Whitespace

\* the call itself: the first one, or one more right after it
CE_Call ==
    /\ ce.pc = IF ce.calls = 0 THEN "idle" ELSE "done"
    /\ cb.pc = "idle"
    /\ ce.calls \in {0, 1}
    /\ ce' = [pc |-> "for", attempt |-> 0, f |-> 0, cleared |-> FALSE,
              reported |-> 0, calls |-> ce.calls + 1,
              emptyAtCall |-> AllEmpty(fields),
              fields0 |-> fields, clicks0 |-> Len(clicks)]
    /\ UNCHANGED <<buttons, fields, defaultTimeout, cb, clicks, everMatch>>
    /\ UNCHANGED outerVars

\* lines 243-245: the next pass of range(max_clear_attempts), or its end
CE_For ==
    /\ ce.pc = "for"
    /\ ce' = IF ce.attempt < max_clear_attempts
               THEN [ce EXCEPT !.pc = "field", !.attempt = ce.attempt + 1,
                               !.cleared = TRUE, !.f = 1]
               ELSE [ce EXCEPT !.pc = "done"]
    /\ UNCHANGED <<buttons, fields, defaultTimeout, cb, clicks, everMatch>>
    /\ UNCHANGED outerVars

\* lines 246-250 and 252-254: test one field and start the "<<" click for a
\* non-empty one; after the last field report and stop, or go round again
CE_Field ==
    /\ ce.pc = "field"
    /\ IF ce.f > Len(fields)
         THEN /\ ce' = IF ce.cleared
                         THEN [ce EXCEPT !.pc = "done", !.reported = ce.reported + 1]
                         ELSE [ce EXCEPT !.pc = "for"]
              /\ UNCHANGED <<cb, everMatch>>
         ELSE IF Truthy(Strip(fields[ce.f]))
                THEN /\ ce' = [ce EXCEPT !.pc = "wait", !.cleared = FALSE]
                     /\ cb' = cbEnter("<<", ClearTimeout)
                     /\ everMatch' = FALSE
                ELSE /\ ce' = [ce EXCEPT !.f = ce.f + 1]
                     /\ UNCHANGED <<cb, everMatch>>
    /\ UNCHANGED <<buttons, fields, defaultTimeout, clicks>>
    /\ UNCHANGED outerVars

\* lines 250-251: click_button_by_text has returned; on to the next field
CE_Return ==
    /\ ce.pc = "wait"
    /\ cb.pc = "done"
    /\ ce' = [ce EXCEPT !.pc = "field", !.f = ce.f + 1]
    /\ cb' = cbIdle
    /\ UNCHANGED <<buttons, fields, defaultTimeout, clicks, everMatch>>
    /\ UNCHANGED outerVars

(***************************************************************************)
(* Specification SpecClear: calls of _clear_ean_field on a window whose    *)
(* edit fields change only through the routine's own clicks.               *)
(***************************************************************************)
\* the values an edit field holds at the start
FieldValues == {<<>>, <<" ">>, <<"7", " ">>}

\* the texts on the buttons of the window in this specification
ClearTexts == {"<<", "OK"}

\* the window has one button: "<<" or another, in any state
InitClear ==
    /\ buttons \in [{1} -> ButtonsOver(ClearTexts)]
    /\ \E n \in 0 .. NFields : fields \in [1 .. n -> FieldValues]
    /\ defaultTimeout \in {MaxTimeout}
    /\ cb = cbIdle
    /\ ce = ceIdle
    /\ clicks = <<>>
    /\ everMatch = FALSE
    /\ OuterIdle

NextClear == CE_Call \/ CE_For \/ CE_Field \/ CE_Return \/ CB_While \/ CB_Scan \/ CB_After

SpecClear == InitClear /\ [][NextClear]_vars

(***************************************************************************)
(* C3: idempotence of the EAN-clearing routine.  A call that begins with   *)
(* every edit field empty (or whitespace only) reports "cleared" once, in  *)
(* its first pass, clicks nothing and leaves the fields as they were; so   *)
(* does the call after it.                                                 *)
(***************************************************************************)
C3_ClearIdempotent ==
    (ce.pc = "done" /\ ce.emptyAtCall) =>
        /\ ce.attempt = 1
        /\ ce.reported = 1
        /\ Len(clicks) = ce.clicks0
        /\ fields = ce.fields0

\* the second of two calls on a window with a whitespace-only field is done
C3_Witness ==
    /\ ce.pc = "done"
    /\ ce.emptyAtCall
    /\ ce.calls = 2
    /\ ce.reported = 1
    /\ \E k \in 1 .. Len(fields) : fields[k] = <<" ">>

(***************************************************************************)
(* Specification SpecClick: one call of click_button_by_text               *)
(***************************************************************************)
\* the texts on the buttons of the window in this specification
ClickTexts == {"1", "OK"}

ClickCall ==
    /\ cb.pc = "idle"
    /\ \E button_text \in ClickTexts, timeout \in TimeoutArgs :
          cb' = cbEnter(button_text, timeout)
    /\ everMatch' = FALSE
    /\ UNCHANGED <<buttons, fields, defaultTimeout, ce, clicks>>
    /\ UNCHANGED outerVars

InitClick ==
    /\ buttons \in [1 .. NButtons -> ButtonsOver(ClickTexts)]
    /\ defaultTimeout \in 0 .. MaxTimeout
    /\ fields = <<>>
    /\ cb = cbIdle
    /\ ce = ceIdle
    /\ clicks = <<>>
    /\ everMatch = FALSE
    /\ OuterIdle

\* the POS changes a button while the call is in progress
UIChangeClick ==
    /\ cb.pc \in {"while", "scan", "after"}
    /\ UIChangeIn(ClickTexts)
    /\ UNCHANGED <<fields, defaultTimeout, cb, ce, clicks>>
    /\ UNCHANGED outerVars

NextClick == ClickCall \/ CB_While \/ CB_Scan \/ CB_After \/ UIChangeClick

SpecClick == InitClick /\ [][NextClick]_vars

(***************************************************************************)
(* C1: click_button_by_text never clicks a control that is invisible or    *)
(* disabled: every control it clicks carries exactly the wanted text and   *)
(* is visible and enabled at the moment of the click.                      *)
(***************************************************************************)
C1_NeverClicksInactive ==
    \A k \in 1 .. Len(clicks) :
        clicks[k].by = "click_button_by_text" =>
            /\ clicks[k].text = clicks[k].wanted
            /\ clicks[k].visible
            /\ clicks[k].enabled

DigitChar(d) ==
    CASE d = 0 -> "0" [] d = 1 -> "1" [] d = 2 -> "2" [] d = 3 -> "3"
      [] d = 4 -> "4" [] d = 5 -> "5" [] d = 6 -> "6" [] d = 7 -> "7"
      [] d = 8 -> "8" [] d = 9 -> "9"

\* str() of a non-negative int
RECURSIVE IntToStr(_)
IntToStr(n) ==
    IF n < 10 THEN <<DigitChar(n)>>
    ELSE Append(IntToStr(n \div 10), DigitChar(n % 10))

\* line 226, str(ean): an EAN is given as a str or as an int
Str(ean) == IF ean.kind = "int" THEN IntToStr(ean.v) ELSE ean.v

\* lines 218-222: the call; the EAN field is cleared first
AP_Call(ean) ==
    /\ ap.pc = "idle"
    /\ ce.pc = "idle"
    /\ cb.pc = "idle"
    /\ ap' = [pc |-> "clearing", ean |-> Str(ean), idx |-> 0, result |-> None,
              clicks0 |-> 0]
    /\ ce' = [pc |-> "for", attempt |-> 0, f |-> 0, cleared |-> FALSE,
              reported |-> 0, calls |-> 1, emptyAtCall |-> AllEmpty(fields),
              fields0 |-> fields, clicks0 |-> Len(clicks)]
    /\ UNCHANGED <<buttons, fields, defaultTimeout, cb, clicks, everMatch>>
    /\ UNCHANGED notAdd

\* add_product_by_ean gives up when the clearing did not report "cleared"
AP_AfterClearMutSignal ==
    /\ ap.pc = "clearing"
    /\ ce.pc = "done"
    /\ ap' = IF ce.reported = 0
               THEN [ap EXCEPT !.pc = "done", !.result = PyFalse]
               ELSE [ap EXCEPT !.pc = "digits", !.idx = 1, !.clicks0 = Len(clicks)]
    /\ UNCHANGED <<buttons, fields, defaultTimeout, cb, ce, clicks, everMatch>>
    /\ UNCHANGED notAdd

\* line 222 returns (with or without "cleared"); the digits follow. The
\* record of the clearing is kept for reference
AP_AfterClear ==
    /\ ap.pc = "clearing"
    /\ ce.pc = "done"
    /\ ap' = [ap EXCEPT !.pc = "digits", !.idx = 1, !.clicks0 = Len(clicks)]
    /\ UNCHANGED <<buttons, fields, defaultTimeout, cb, ce, clicks, everMatch>>
    /\ UNCHANGED notAdd

\* lines 226-227 and 233: click the next character, or "OK" after the last
AP_Digit ==
    /\ ap.pc = "digits"
    /\ IF ap.idx <= Len(ap.ean)
         THEN /\ cb' = cbEnter(ap.ean[ap.idx], NoTimeout)
              /\ ap' = [ap EXCEPT !.pc = "waitDigit"]
         ELSE /\ cb' = cbEnter("OK", NoTimeout)
              /\ ap' = [ap EXCEPT !.pc = "waitOK"]
    /\ everMatch' = FALSE
    /\ UNCHANGED <<buttons, fields, defaultTimeout, ce, clicks>>
    /\ UNCHANGED notAdd

\* a failed digit click is overlooked and the loop goes on
AP_DigitReturnMutGoOn ==
    /\ ap.pc = "waitDigit"
    /\ cb.pc = "done"
    /\ ap' = [ap EXCEPT !.pc = "digits", !.idx = ap.idx + 1]
    /\ cb' = cbIdle
    /\ UNCHANGED <<buttons, fields, defaultTimeout, ce, clicks, everMatch>>
    /\ UNCHANGED notAdd

\* lines 227-230: the digit click has returned
AP_DigitReturn ==
    /\ ap.pc = "waitDigit"
    /\ cb.pc = "done"
    /\ ap' = IF cb.result = PyTrue
               THEN [ap EXCEPT !.pc = "digits", !.idx = ap.idx + 1]
               ELSE [ap EXCEPT !.pc = "done", !.result = PyFalse]
    /\ cb' = cbIdle
    /\ UNCHANGED <<buttons, fields, defaultTimeout, ce, clicks, everMatch>>
    /\ UNCHANGED notAdd

\* lines 233-238: the "OK" click has returned
AP_OKReturn ==
    /\ ap.pc = "waitOK"
    /\ cb.pc = "done"
    /\ ap' = [ap EXCEPT !.pc = "done",
                        !.result = IF cb.result = PyTrue THEN PyTrue ELSE PyFalse]
    /\ cb' = cbIdle
    /\ UNCHANGED <<buttons, fields, defaultTimeout, ce, clicks, everMatch>>
    /\ UNCHANGED notAdd

(***************************************************************************)
(* Specification SpecAdd: one call of add_product_by_ean on a keypad       *)
(* whose buttons the POS enables and disables while the keys are entered.  *)
(***************************************************************************)
\* the keypad: one button for each text, in this order
KeypadTexts == <<"1", "2", "OK", "<<">>

\* the EAN codes passed: strings and ints, one with a digit ("0") that the
\* keypad does not show
EanInputs ==
    {[kind |-> "str", v |-> <<>>], [kind |-> "str", v |-> <<"1">>],
     [kind |-> "str", v |-> <<"2", "1">>], [kind |-> "str", v |-> <<"1", "1">>],
     [kind |-> "int", v |-> 12], [kind |-> "int", v |-> 10]}

InitAdd ==
    /\ \E en \in [1 .. Len(KeypadTexts) -> BOOLEAN] :
          buttons = [k \in 1 .. Len(KeypadTexts) |->
                       [text |-> KeypadTexts[k], visible |-> TRUE, enabled |-> en[k]]]
    /\ fields \in [{1} -> FieldValues]
    /\ defaultTimeout \in 0 .. MaxTimeout
    /\ cb = cbIdle
    /\ ce = ceIdle
    /\ clicks = <<>>
    /\ everMatch = FALSE
    /\ OuterIdle

\* the call, with any of the EAN codes
AddCall == \E ean \in EanInputs : AP_Call(ean)

\* the POS enables or disables a keypad button between two clicks of the
\* call (lines 230-233: sleep(0.2), next character) and between two polls
\* for a key (line 206: sleep(1))
UIChangeAdd ==
    /\ \/ ap.pc = "digits"
       \/ ap.pc \in {"waitDigit", "waitOK"} /\ cb.pc = "while"
    /\ \E k \in 1 .. Len(buttons) :
          buttons' = [buttons EXCEPT ![k].enabled = ~buttons[k].enabled]
    /\ everMatch' = (everMatch \/ (Polling /\ MatchNow(buttons', cb.button_text)))
    /\ UNCHANGED <<fields, defaultTimeout, cb, ce, clicks, ap>>
    /\ UNCHANGED notAdd

NextAdd ==
    \/ AddCall \/ AP_AfterClear \/ AP_Digit \/ AP_DigitReturn \/ AP_OKReturn
    \/ CE_For \/ CE_Field \/ CE_Return
    \/ CB_While \/ CB_Scan \/ CB_After
    \/ UIChangeAdd

SpecAdd == InitAdd /\ [][NextAdd]_vars

\* the texts add_product_by_ean has asked to click, after the clearing, for
\* which a click was made
EnteredKeys == [k \in 1 .. (Len(clicks) - ap.clicks0) |-> clicks[ap.clicks0 + k].wanted]

\* s is a prefix of t
IsPrefix(s, t) == Len(s) <= Len(t) /\ s = SubSeq(t, 1, Len(s))

(***************************************************************************)
(* C10: add_product_by_ean clicks the keys for the characters of str(ean)  *)
(* from left to right, one click for each, and then "OK".  It returns True *)
(* only after all of these clicks were made; it returns False at the first *)
(* click that fails, with no click for a later character or for "OK".      *)
(***************************************************************************)
C10_DigitsInOrderThenOK ==
    ap.pc \in {"digits", "waitDigit", "waitOK", "done"} =>
        /\ IsPrefix(EnteredKeys, Append(ap.ean, "OK"))
        /\ Len(EnteredKeys) \in {ap.idx - 1, ap.idx}
        /\ (ap.pc = "done" /\ ap.result = PyTrue) => EnteredKeys = Append(ap.ean, "OK")
        /\ (ap.pc = "done" /\ ap.result = PyFalse) => Len(EnteredKeys) = ap.idx - 1
        /\ ap.pc = "done" => ap.result \in {PyTrue, PyFalse}

\* the int 10 was passed: "1" was clicked, "0" failed, and the call returned
\* False without a click on "OK"
C10_Witness ==
    /\ ap.pc = "done"
    /\ ap.result = PyFalse
    /\ ap.ean = <<"1", "0">>
    /\ EnteredKeys = <<"1">>

(***************************************************************************)
(* complete_cash_tender  (utils/pos_base.py 273-313)                       *)
(***************************************************************************)
\* str.lower() on one character
LowerChar(c) ==
    CASE c = "Y" -> "y" [] c = "E" -> "e" [] c = "S" -> "s"
      [] c = "N" -> "n" [] c = "O" -> "o" [] c = "B" -> "b"
      [] c = "D" -> "d" [] c = "F" -> "f" [] c = "P" -> "p" [] OTHER -> c

\* str.lower()
Lower(s) == [k \in 1 .. Len(s) |-> LowerChar(s[k])]

\* line 303: the test on a button of the popup
IsYesButton(text) == Lower(Strip(text)) = <<"y", "e", "s">>

\* the last suggested amount is taken
SuggestedIndexMutLast(list_items) == Len(list_items)

\* line 292: list_items[0], as a 1-based index
SuggestedIndex(list_items) == 1

\* the handler takes no notice of the exception
CT_ExceptMutPropagate(c) == [c EXCEPT !.pc = "done", !.result = Raised, !.threw = TRUE]

\* lines 311-313: except Exception: return False
CT_Except(c) == [c EXCEPT !.pc = "done", !.result = PyFalse, !.threw = TRUE]

\* lines 273-277
CT_Call ==
    /\ ct.pc = "idle"
    /\ ct' = [ctIdle EXCEPT !.pc = "tender"]
    /\ UNCHANGED <<clicks, ui>>
    /\ UNCHANGED notTender
    /\ UNCHANGED keypadVars

\* lines 279-286: look the tender control up and click it.  The lookup or
\* the click raises when throws is true (no window attached, control gone).
CT_Tender(throws) ==
    /\ ct.pc = "tender"
    /\ IF throws
         THEN ct' = CT_Except(ct) /\ clicks' = clicks
         ELSE IF ~ui.tenderExists
                THEN /\ ct' = [ct EXCEPT !.pc = "done", !.result = PyFalse,
                                         !.q = 1, !.sawTender = FALSE]
                     /\ clicks' = clicks
                ELSE /\ ct' = [ct EXCEPT !.pc = "amount", !.q = 1, !.sawTender = TRUE]
                     /\ clicks' = Append(clicks, [by |-> "complete_cash_tender",
                                                   ctl |-> "TenderButtonsCash"])
    /\ UNCHANGED ui
    /\ UNCHANGED notTender
    /\ UNCHANGED keypadVars

\* lines 289-296: the suggested amounts; children() raises when the list
\* control does not exist
CT_Amount(throws) ==
    /\ ct.pc = "amount"
    /\ IF throws \/ ~ui.listExists
         THEN ct' = CT_Except(ct) /\ clicks' = clicks
         ELSE IF ui.cashList = <<>>
                THEN /\ ct' = [ct EXCEPT !.pc = "done", !.result = PyFalse,
                                         !.q = 2, !.sawItems = <<>>]
                     /\ clicks' = clicks
                ELSE /\ ct' = [ct EXCEPT !.pc = "popup", !.q = 2, !.sawItems = ui.cashList]
                     /\ clicks' = Append(clicks,
                            [by |-> "complete_cash_tender",
                             ctl |-> "SuggestedCashListBox",
                             index |-> SuggestedIndex(ui.cashList),
                             amount |-> ui.cashList[SuggestedIndex(ui.cashList)]])
    /\ UNCHANGED ui
    /\ UNCHANGED notTender
    /\ UNCHANGED keypadVars

\* lines 299-309: the buttons of the top window; the first "yes" is clicked
CT_Popup(throws) ==
    /\ ct.pc = "popup"
    /\ IF throws
         THEN ct' = CT_Except(ct) /\ clicks' = clicks
         ELSE LET yes == {k \in 1 .. Len(ui.popup) : IsYesButton(ui.popup[k])}
              IN  IF yes = {}
                    THEN /\ ct' = [ct EXCEPT !.pc = "done", !.result = PyFalse,
                                             !.q = 3, !.sawPopup = ui.popup]
                         /\ clicks' = clicks
                    ELSE LET k == CHOOSE j \in yes : \A m \in yes : j <= m
                         IN  /\ ct' = [ct EXCEPT !.pc = "done", !.result = PyTrue,
                                                 !.q = 3, !.sawPopup = ui.popup]
                             /\ clicks' = Append(clicks,
                                    [by |-> "complete_cash_tender", ctl |-> "popup",
                                     index |-> k, text |-> ui.popup[k]])
    /\ UNCHANGED ui
    /\ UNCHANGED notTender
    /\ UNCHANGED keypadVars

(***************************************************************************)
(* Specification SpecTender: one call of complete_cash_tender; the POS     *)
(* shows and hides the tender button, the suggested amounts and the popup  *)
(* while the call sleeps.                                                  *)
(***************************************************************************)
\* the suggested cash amounts
CashLists == {<<>>, <<20>>, <<50, 20>>}

\* texts of popup buttons
TxtNo == <<"N", "o">>
TxtYes == <<"Y", "e", "s">>
TxtYesPadded == <<" ", "Y", "E", "S", " ">>
TxtYesBang == <<"Y", "e", "s", "!">>

\* the buttons of the window on top
Popups == {<<>>, <<TxtNo>>, <<TxtNo, TxtYesPadded>>, <<TxtYesBang, TxtYes>>}

\* totals of the basket on screen
BasketTotals == {10, 30}

TenderScreens ==
    [screen : {"tender"}, tenderExists : BOOLEAN, listExists : BOOLEAN,
     cashList : CashLists, popup : Popups, basketTotal : BasketTotals]

InitTender ==
    /\ KeypadIdle
    /\ clicks = <<>>
    /\ ap = apIdle
    /\ ct = ctIdle
    /\ lg = lgIdle
    /\ DataIdle
    /\ ui \in TenderScreens

\* a query or click of the next step raises, or does not
TenderStep == \E throws \in BOOLEAN : CT_Tender(throws)
AmountStep == \E throws \in BOOLEAN : CT_Amount(throws)
PopupStep == \E throws \in BOOLEAN : CT_Popup(throws)

\* the POS changes what it shows while the call is in progress
UIChangeTender ==
    /\ ct.pc \in {"tender", "amount", "popup"}
    /\ ui' \in {[ui EXCEPT !.tenderExists = ~ui.tenderExists],
                [ui EXCEPT !.listExists = ~ui.listExists]}
               \cup {[ui EXCEPT !.cashList = l] : l \in CashLists \ {ui.cashList}}
               \cup {[ui EXCEPT !.popup = b] : b \in Popups \ {ui.popup}}
    /\ UNCHANGED <<clicks, ct>>
    /\ UNCHANGED notTender
    /\ UNCHANGED keypadVars

NextTender == CT_Call \/ TenderStep \/ AmountStep \/ PopupStep \/ UIChangeTender

SpecTender == InitTender /\ [][NextTender]_vars

\* the button texts whose trimmed lower-cased form is "yes"
YesTexts == {TxtYes, TxtYesPadded}

\* the clicks are the first n of: tender control, first suggested amount,
\* a "yes" button
TenderClicksAre(n) ==
    /\ Len(clicks) = n
    /\ n >= 1 => clicks[1].ctl = "TenderButtonsCash"
    /\ n >= 2 => /\ clicks[2].ctl = "SuggestedCashListBox"
                 /\ clicks[2].index = 1
                 /\ clicks[2].amount = ct.sawItems[1]
    /\ n >= 3 => /\ clicks[3].ctl = "popup"
                 /\ clicks[3].text \in YesTexts

(***************************************************************************)
(* C7: complete_cash_tender returns True only after it has clicked, in     *)
(* this order, the cash tender control, the first item of the suggested    *)
(* list and a button of the top window whose trimmed lower-cased text is   *)
(* "yes"; the amount is the first suggested one whatever the basket total. *)
(***************************************************************************)
C7_TrueOnlyAfterThreeClicks ==
    /\ \E n \in 0 .. 3 : TenderClicksAre(n)
    /\ (ct.pc = "done" /\ ct.result = PyTrue) => TenderClicksAre(3)

\* True was returned after the second of two amounts, smaller than the
\* basket total, was passed over for the first, and a padded "YES" clicked
C7_Witness ==
    /\ ct.pc = "done"
    /\ ct.result = PyTrue
    /\ ct.sawItems = <<50, 20>>
    /\ clicks[2].amount = 50
    /\ clicks[3].text = TxtYesPadded

(***************************************************************************)
(* C8: complete_cash_tender reports every failure as False and never       *)
(* raises: False with no click when the tender control does not exist,     *)
(* False after the tender click alone when the list of amounts is empty,   *)
(* False after the tender and amount clicks when no "yes" button is found, *)
(* False when a UI query throws; the clicks made are never undone.         *)
(***************************************************************************)
C8_FailuresAreFalse ==
    ct.pc = "done" =>
        /\ ct.result \in {PyTrue, PyFalse}
        /\ ct.threw => (ct.result = PyFalse /\ TenderClicksAre(ct.q))
        /\ (~ct.threw /\ ct.q = 1) =>
               (~ct.sawTender /\ ct.result = PyFalse /\ TenderClicksAre(0))
        /\ (~ct.threw /\ ct.q = 2) =>
               (ct.sawItems = <<>> /\ ct.result = PyFalse /\ TenderClicksAre(1))
        /\ (~ct.threw /\ ct.q = 3 /\ \A k \in 1 .. Len(ct.sawPopup) : ct.sawPopup[k] \notin YesTexts) =>
               (ct.result = PyFalse /\ TenderClicksAre(2))

\* the lookup of the popup raised after the tender and amount clicks
C8_Witness ==
    /\ ct.pc = "done"
    /\ ct.threw
    /\ ct.q = 2
    /\ ct.result = PyFalse
    /\ Len(clicks) = 2

(***************************************************************************)
(* login_to_pos, _dismiss_overlays, _enter_username, _enter_password       *)
(* (utils/pos_base.py 90-178)                                              *)
(***************************************************************************)
\* config.USERNAME and config.PASSWORD, the defaults of lines 92-95
ConfigUsername == <<"u">>
ConfigPassword == <<"p">>

\* the margin of the random click, lines 147-148
ClickMargin == 50

\* random.randint(a, b): the integers a .. b; ValueError when a > b
RandInt(a, b) == a .. b

\* lines 147-148 with a margin one short
RandomPointsMutMargin(rect) ==
    RandInt(rect.left + ClickMargin - 1, rect.right - ClickMargin + 1)
      \X RandInt(rect.top + ClickMargin - 1, rect.bottom - ClickMargin + 1)

\* lines 147-148: the points a random click can land on
RandomPoints(rect) ==
    RandInt(rect.left + ClickMargin, rect.right - ClickMargin)
      \X RandInt(rect.top + ClickMargin, rect.bottom - ClickMargin)

\* an exception leaves login_to_pos: nothing on its path catches it
LG_Raise(l) == [l EXCEPT !.pc = "done", !.result = Raised]

\* a value is returned
LG_Return(l, v) == [l EXCEPT !.pc = "done", !.result = v]

\* lines 98 and 103: login_btn.exists() has answered
Looked(l, found) == [l EXCEPT !.lookups = Append(@, found)]

\* lines 90-95: the call; empty credentials are replaced by the defaults
LG_Call(username, password) ==
    /\ lg.pc = "idle"
    /\ lg' = [pc |-> "find1",
              username |-> IF Truthy(username) THEN username ELSE ConfigUsername,
              password |-> IF Truthy(password) THEN password ELSE ConfigPassword,
              result |-> None, lookups |-> <<>>]
    /\ UNCHANGED <<clicks, ui>>
    /\ UNCHANGED notLogin
    /\ UNCHANGED keypadVars

\* lines 98-99: is the login button there
LG_Find1 ==
    /\ lg.pc = "find1"
    /\ lg' = [Looked(lg, ui.loginBtn # "absent") EXCEPT
                 !.pc = IF ui.loginBtn = "absent" THEN "saver" ELSE "find2"]
    /\ UNCHANGED <<clicks, ui>>
    /\ UNCHANGED notLogin
    /\ UNCHANGED keypadVars

\* lines 135-142: click the screen saver if there is one; an exception of
\* the lookup or the click is swallowed
LG_Saver(throws) ==
    /\ lg.pc = "saver"
    /\ lg' = [lg EXCEPT !.pc = "random"]
    /\ clicks' = IF ui.overlay /\ ~throws
                    THEN Append(clicks, [by |-> "_dismiss_overlays", ctl |-> "MediaElement"])
                    ELSE clicks
    /\ UNCHANGED ui
    /\ UNCHANGED notLogin
    /\ UNCHANGED keypadVars

\* lines 145-150: the random click inside the window, outside any try
LG_Random ==
    /\ lg.pc = "random"
    /\ IF RandomPoints(ui.rect) = {}
         THEN lg' = LG_Raise(lg) /\ clicks' = clicks
         ELSE /\ \E pt \in RandomPoints(ui.rect) :
                    clicks' = Append(clicks, [by |-> "_dismiss_overlays", ctl |-> "window",
                                              x |-> pt[1], y |-> pt[2], rect |-> ui.rect])
              /\ lg' = [lg EXCEPT !.pc = "find2"]
    /\ UNCHANGED ui
    /\ UNCHANGED notLogin
    /\ UNCHANGED keypadVars

\* lines 104-110: the login button is waited for and clicked;
\* wait("enabled") raises TimeoutError when it does not become enabled
LG_ClickLogin ==
    /\ lg.pc = "find2"
    /\ IF ui.loginBtn = "absent"
         THEN lg' = LG_Return(Looked(lg, FALSE), PyFalse) /\ clicks' = clicks
         ELSE IF ui.loginBtn = "disabled"
                THEN lg' = LG_Raise(Looked(lg, TRUE)) /\ clicks' = clicks
                ELSE /\ lg' = [Looked(lg, TRUE) EXCEPT !.pc = "user"]
                     /\ clicks' = Append(clicks, [by |-> "login_to_pos",
                                                   ctl |-> "UCLoginScreenLoginButton"])
    /\ UNCHANGED ui
    /\ UNCHANGED notLogin
    /\ UNCHANGED keypadVars

\* lines 113-114 and 152-166: the username is typed unless the field holds
\* it already; wait("ready") raises when the field does not become ready
LG_User ==
    /\ lg.pc = "user"
    /\ IF ui.userField = "absent"
         THEN lg' = LG_Return(lg, PyFalse) /\ clicks' = clicks
         ELSE IF ui.userField = "busy"
                THEN lg' = LG_Raise(lg) /\ clicks' = clicks
                ELSE /\ lg' = [lg EXCEPT !.pc = "pass"]
                     /\ clicks' = IF Strip(ui.userValue) # lg.username
                                     THEN Append(clicks, [by |-> "_enter_username",
                                                          ctl |-> "UserName",
                                                          keys |-> lg.username])
                                     ELSE clicks
    /\ UNCHANGED ui
    /\ UNCHANGED notLogin
    /\ UNCHANGED keypadVars

\* lines 117-118 and 168-178: the password is typed
LG_Pass ==
    /\ lg.pc = "pass"
    /\ IF ui.passField = "absent"
         THEN lg' = LG_Return(lg, PyFalse) /\ clicks' = clicks
         ELSE IF ui.passField = "busy"
                THEN lg' = LG_Raise(lg) /\ clicks' = clicks
                ELSE /\ lg' = [lg EXCEPT !.pc = "ok"]
                     /\ clicks' = Append(clicks, [by |-> "_enter_password",
                                                   ctl |-> "Password",
                                                   keys |-> lg.password])
    /\ UNCHANGED ui
    /\ UNCHANGED notLogin
    /\ UNCHANGED keypadVars

\* lines 121-131: the sign-in OK button is waited for and clicked
LG_OK ==
    /\ lg.pc = "ok"
    /\ IF ui.okBtn = "absent"
         THEN lg' = LG_Return(lg, PyFalse) /\ clicks' = clicks
         ELSE IF ui.okBtn = "disabled"
                THEN lg' = LG_Raise(lg) /\ clicks' = clicks
                ELSE /\ lg' = LG_Return(lg, PyTrue)
                     /\ clicks' = Append(clicks, [by |-> "login_to_pos",
                                                   ctl |-> "UCSignInOKButton"])
    /\ UNCHANGED ui
    /\ UNCHANGED notLogin
    /\ UNCHANGED keypadVars

(***************************************************************************)
(* Specification SpecLogin: one call of login_to_pos; the POS changes its  *)
(* login screen between the steps of the call.                             *)
(***************************************************************************)
\* a button: not in the tree, there but disabled, enabled
ControlStates == {"absent", "disabled", "enabled"}

\* an edit field: not in the tree, there but not ready, ready
FieldStates == {"absent", "busy", "ready"}

\* window rectangles: narrower or lower than two margins, and larger
Rects ==
    {[left |-> 0, top |-> 0, right |-> 99, bottom |-> 101],
     [left |-> 0, top |-> 0, right |-> 101, bottom |-> 99],
     [left |-> 0, top |-> 0, right |-> 101, bottom |-> 100]}

\* the credentials passed; <<>> stands for None
CredentialArgs == {<<>>, <<"u">>, <<"v">>}

LoginScreens ==
    [screen : {"login"}, loginBtn : ControlStates, overlay : BOOLEAN, rect : Rects,
     userField : FieldStates, userValue : {<<>>, <<"u", " ">>},
     passField : FieldStates, okBtn : ControlStates]

InitLogin ==
    /\ KeypadIdle
    /\ clicks = <<>>
    /\ ap = apIdle
    /\ ct = ctIdle
    /\ lg = lgIdle
    /\ DataIdle
    /\ ui \in LoginScreens

LoginCall == \E username \in CredentialArgs, password \in {<<>>, <<"p">>} : LG_Call(username, password)

SaverStep == \E throws \in BOOLEAN : LG_Saver(throws)

\* the POS changes a control of the login screen while the call runs
UIChangeLogin ==
    /\ lg.pc \notin {"idle", "done"}
    /\ ui' \in {[ui EXCEPT !.loginBtn = c] : c \in ControlStates \ {ui.loginBtn}}
               \cup {[ui EXCEPT !.okBtn = c] : c \in ControlStates \ {ui.okBtn}}
               \cup {[ui EXCEPT !.userField = c] : c \in FieldStates \ {ui.userField}}
               \cup {[ui EXCEPT !.passField = c] : c \in FieldStates \ {ui.passField}}
               \cup {[ui EXCEPT !.overlay = ~ui.overlay]}
    /\ UNCHANGED <<clicks, lg>>
    /\ UNCHANGED notLogin
    /\ UNCHANGED keypadVars

NextLogin ==
    \/ LoginCall \/ LG_Find1 \/ SaverStep \/ LG_Random \/ LG_ClickLogin
    \/ LG_User \/ LG_Pass \/ LG_OK \/ UIChangeLogin

SpecLogin == InitLogin /\ [][NextLogin]_vars

(***************************************************************************)
(* C9: login_to_pos returns a boolean in every case and never lets an      *)
(* exception out, whatever the state of the login button, the fields, the  *)
(* sign-in OK button, the overlay and the size of the window.              *)
(***************************************************************************)
C9_LoginReturnsBoolean ==
    lg.pc = "done" => lg.result \in {PyTrue, PyFalse}

(***************************************************************************)
(* CSVDataManager  (data/csv_data_manager.py)                              *)
(***************************************************************************)
\* bool(v) of a cell
Bool(v) ==
    CASE v.t = "str" -> v.s # <<>>
      [] v.t \in {"float", "int"} -> v.n # 0
      [] v.t = "none" -> FALSE

Digits == {DigitChar(d) : d \in 0 .. 9}

DigitVal(c) == CHOOSE d \in 0 .. 9 : DigitChar(d) = c

AllDigits(s) == \A i \in 1 .. Len(s) : s[i] \in Digits

\* the number a string of digits denotes
RECURSIVE DigitsVal(_)
DigitsVal(s) ==
    IF s = <<>> THEN 0
    ELSE 10 * DigitsVal(SubSeq(s, 1, Len(s) - 1)) + DigitVal(s[Len(s)])

\* int of a text without surrounding blanks: digits are required; ok is
\* FALSE where int raises ValueError
IntOfStripped(t) ==
    IF t # <<>> /\ AllDigits(t) THEN [ok |-> TRUE, n |-> DigitsVal(t)]
    ELSE [ok |-> FALSE, n |-> 0]

\* int(s) of line 40: surrounding blanks are dropped
IntOf(s) == IntOfStripped(Strip(s))

\* the positions of the decimal point
Dots(t) == {i \in 1 .. Len(t) : t[i] = "."}

\* float of a text with one point, at position d, in hundredths: digits on
\* both sides and at least one of them; decimals after the second are not
\* kept
FloatAt(t, d) ==
    IF Len(t) > 1 /\ AllDigits(SubSeq(t, 1, d - 1)) /\ AllDigits(SubSeq(t, d + 1, Len(t)))
      THEN [ok |-> TRUE,
            n |-> 100 * DigitsVal(SubSeq(t, 1, d - 1))
                    + DigitsVal(SubSeq(SubSeq(t, d + 1, Len(t)) \o <<"0", "0">>, 1, 2))]
      ELSE [ok |-> FALSE, n |-> 0]

\* float of a text without surrounding blanks, in hundredths; ok is FALSE
\* where float raises ValueError
FloatOfStripped(t) ==
    IF Dots(t) = {}
      THEN IF t # <<>> /\ AllDigits(t) THEN [ok |-> TRUE, n |-> 100 * DigitsVal(t)]
           ELSE [ok |-> FALSE, n |-> 0]
      ELSE IF Cardinality(Dots(t)) > 1 THEN [ok |-> FALSE, n |-> 0]
      ELSE FloatAt(t, CHOOSE i \in Dots(t) : TRUE)

\* float(s) of lines 36 and 38: surrounding blanks are dropped
FloatOf(s) == FloatOfStripped(Strip(s))

\* the cell a conversion leaves, or ok FALSE when it raised
FloatCell(r) == [ok |-> r.ok, v |-> PyFloat(r.n)]
IntCell(r) == [ok |-> r.ok, v |-> PyInt(r.n)]

\* lines 35-38: a float column is converted when it is not empty
ConvFloat(cell) == IF Bool(cell) THEN FloatCell(FloatOf(cell.s)) ELSE [ok |-> TRUE, v |-> cell]

\* lines 39-40: the quantity is converted when it is not empty
ConvInt(cell) == IF Bool(cell) THEN IntCell(IntOf(cell.s)) ELSE [ok |-> TRUE, v |-> cell]

\* the row with its three numeric columns replaced; ok is FALSE when one of
\* the conversions raised
Converted(row, p, c, q) ==
    [ok |-> p.ok /\ c.ok /\ q.ok,
     row |-> [row EXCEPT !.expected_price = p.v, !.cash_tender_amount = c.v, !.quantity = q.v]]

\* lines 34-40
ConvertRow(row) ==
    Converted(row, ConvFloat(row.expected_price), ConvFloat(row.cash_tender_amount),
              ConvInt(row.quantity))

\* the rows whose conversion raises
BadRows(conv) == {i \in 1 .. Len(conv) : ~conv[i].ok}

\* the number of rows before the first one whose conversion raises
GoodCount(conv) ==
    IF BadRows(conv) = {} THEN Len(conv)
    ELSE (CHOOSE i \in BadRows(conv) : \A j \in BadRows(conv) : i <= j) - 1

\* lines 33-42, on the converted rows: they are appended to the cache one by
\* one, up to the first row whose conversion raised
Appended(conv) ==
    [ok |-> BadRows(conv) = {},
     rows |-> SubSeq([i \in 1 .. Len(conv) |-> conv[i].row], 1, GoodCount(conv))]

\* lines 31-42: the rows of the file are read
ReadRows(rows) == Appended([i \in 1 .. Len(rows) |-> ConvertRow(rows[i])])

\* line 32: DictReader takes the first line of the file for the header. In
\* a file that add_scenario created, the first line is a row: the rows after
\* it are keyed by its cells, and row['expected_price'] raises KeyError
ReadFile(file) ==
    IF file.headed THEN ReadRows(file.rows)
    ELSE [ok |-> Len(file.rows) <= 1, rows |-> <<>>]

\* lines 29 and 43-51: the cache holds what was appended; the call returns
\* the cache, or an empty list when an exception was caught
Loaded(d, r) ==
    [d |-> [d EXCEPT !.cache = [set |-> TRUE, rows |-> r.rows]],
     ret |-> IF r.ok THEN r.rows ELSE <<>>]

\* load_scenarios without the test of line 28: the file is read at each call
load_scenariosMutReread(d) ==
    IF ~d.file.exists THEN Loaded(d, [ok |-> FALSE, rows |-> <<>>])
    ELSE Loaded(d, ReadFile(d.file))

\* lines 26-51: d is the manager before the call; the manager after it and
\* the list returned
load_scenarios(d) ==
    IF d.cache.set THEN [d |-> d, ret |-> d.cache.rows]
    ELSE IF ~d.file.exists THEN Loaded(d, [ok |-> FALSE, rows |-> <<>>])
    ELSE Loaded(d, ReadFile(d.file))

\* lines 87-88: the index of the first scenario of that name, 0 if none
FirstHit(scenarios, scenario_name) ==
    IF \A i \in 1 .. Len(scenarios) : scenarios[i].scenario_name # PyStr(scenario_name)
      THEN 0
      ELSE CHOOSE i \in 1 .. Len(scenarios) :
             /\ scenarios[i].scenario_name = PyStr(scenario_name)
             /\ \A j \in 1 .. i - 1 : scenarios[j].scenario_name # PyStr(scenario_name)

\* lines 87-93: scenario k of the list, or None when k is 0
Hit(l, k) ==
    [d |-> l.d, found |-> k # 0, rec |-> IF k # 0 THEN l.ret[k] ELSE NoRecord]

\* lines 86-93, on what load_scenarios returned
Lookup(l, scenario_name) == Hit(l, FirstHit(l.ret, scenario_name))

\* lines 84-93: the first scenario of that name, or None
get_scenario_data(d, scenario_name) == Lookup(load_scenarios(d), scenario_name)

\* line 138
required_fields == <<"user_name", "ean_code", "cash_tender_amount">>

\* lines 139-143
missing_fields(scenario) ==
    {i \in 1 .. Len(required_fields) : ~Bool(scenario[required_fields[i]])}

\* lines 135-150, on what get_scenario_data returned
Validated(g) ==
    [d |-> g.d, found |-> g.found, rec |-> g.rec,
     ret |-> IF ~g.found THEN PyFalse
             ELSE IF missing_fields(g.rec) # {} THEN PyFalse
             ELSE PyTrue]

\* lines 132-150
validate_scenario_data(d, scenario_name) == Validated(get_scenario_data(d, scenario_name))

\* a call of load_scenarios
DM_Load ==
    /\ dm' = [load_scenarios(dm).d EXCEPT
                 !.last = [NoCall EXCEPT !.op = "load_scenarios", !.hit = dm.cache.set,
                                         !.list = load_scenarios(dm).ret]]
    /\ UNCHANGED clicks
    /\ UNCHANGED notData
    /\ UNCHANGED keypadVars

\* the manager after get_scenario_data returned g
AfterGet(g, scenario_name) ==
    [g.d EXCEPT !.last = [NoCall EXCEPT !.op = "get_scenario_data", !.arg = scenario_name,
                                        !.found = g.found, !.rec = g.rec]]

\* a call of get_scenario_data
DM_Get(scenario_name) ==
    /\ dm' = [AfterGet(get_scenario_data(dm, scenario_name), scenario_name)
                 EXCEPT !.last.hit = dm.cache.set]
    /\ UNCHANGED clicks
    /\ UNCHANGED notData
    /\ UNCHANGED keypadVars

\* the manager after validate_scenario_data returned v
AfterValidate(v, scenario_name) ==
    [v.d EXCEPT !.last = [NoCall EXCEPT !.op = "validate_scenario_data",
                                        !.arg = scenario_name, !.ret = v.ret,
                                        !.found = v.found, !.rec = v.rec]]

\* a call of validate_scenario_data
DM_Validate(scenario_name) ==
    /\ dm' = [AfterValidate(validate_scenario_data(dm, scenario_name), scenario_name)
                 EXCEPT !.last.hit = dm.cache.set]
    /\ UNCHANGED clicks
    /\ UNCHANGED notData
    /\ UNCHANGED keypadVars

(***************************************************************************)
(* Specification SpecData: a manager over a scenarios file of up to        *)
(* MaxRows rows; load_scenarios, get_scenario_data and                     *)
(* validate_scenario_data are called in any order.                         *)
(***************************************************************************)
basic_cash_sale == <<"b", "a", "s", "i", "c", "_", "c", "a", "s", "h", "_", "s", "a", "l", "e">>
promotion_cash_sale == <<"p", "r", "o", "m", "o", "t", "i", "o", "n", "_", "c", "a", "s", "h", "_", "s", "a", "l", "e">>
loyalty_cash_sale == <<"l", "o", "y", "a", "l", "t", "y", "_", "c", "a", "s", "h", "_", "s", "a", "l", "e">>

\* a scenario no test is written for
other_sale == <<"o">>

ScenarioNames == {basic_cash_sale, other_sale}

\* a row of the file: every cell is the text between two commas
FileRow(name, user, password, ean, cash, quantity) ==
    [scenario_name |-> PyStr(name), user_name |-> PyStr(user), password |-> PyStr(password),
     ean_code |-> PyStr(ean), item_name |-> PyStr(<<"i">>), expected_price |-> PyStr(<<>>),
     cash_tender_amount |-> PyStr(cash), loyalty_number |-> PyStr(<<>>),
     promotion_code |-> PyStr(<<>>), quantity |-> PyStr(quantity)]

\* the cash_tender_amount cells: empty, zero, an amount, not a number
CashCells == {<<>>, <<"0">>, <<"2", "0", ".", "0", "0">>, <<"x">>}

DataRows ==
    {FileRow(name, user, <<"p">>, ean, cash, <<"1">>) :
        name \in ScenarioNames, user \in {<<>>, <<"u">>}, ean \in {<<>>, <<"1", "2">>},
        cash \in CashCells}

\* the files over a set of rows: missing, or with up to MaxRows rows
FilesOver(R) ==
    {[exists |-> FALSE, headed |-> TRUE, rows |-> <<>>]}
      \cup {[exists |-> TRUE, headed |-> TRUE, rows |-> rows] :
               rows \in UNION {[1 .. n -> R] : n \in 0 .. MaxRows}}

InitData ==
    /\ KeypadIdle
    /\ clicks = <<>>
    /\ ap = apIdle
    /\ ui = uiOff
    /\ ct = ctIdle
    /\ lg = lgIdle
    /\ tst = tstIdle
    /\ \E file \in FilesOver(DataRows) : dm = [dmIdle EXCEPT !.file = file]

GetCall == \E scenario_name \in ScenarioNames : DM_Get(scenario_name)

ValidateCall == \E scenario_name \in ScenarioNames : DM_Validate(scenario_name)

NextData == DM_Load \/ GetCall \/ ValidateCall

SpecData == InitData /\ [][NextData]_vars

\* a cell holds something: a non-empty text or a number
NonEmpty(v) == v.t \in {"float", "int"} \/ (v.t = "str" /\ v.s # <<>>)

(***************************************************************************)
(* C4: validate_scenario_data(name) returns True if and only if a record   *)
(* of that name is loaded and its user_name, ean_code and                  *)
(* cash_tender_amount are all non-empty, a numeric cash_tender_amount of 0 *)
(* included; it returns False otherwise.                                   *)
(***************************************************************************)
C4_ValidateIffComplete ==
    dm.last.op = "validate_scenario_data" =>
        /\ dm.last.ret \in {PyTrue, PyFalse}
        /\ dm.last.ret = PyTrue <=>
              /\ dm.last.found
              /\ NonEmpty(dm.last.rec.user_name)
              /\ NonEmpty(dm.last.rec.ean_code)
              /\ NonEmpty(dm.last.rec.cash_tender_amount)

(***************************************************************************)
(* The scenario accessors of Config (config/config.py 54-89) and of        *)
(* POSAutomation (utils/pos_base.py 19-58), and execute_scenario_login     *)
(* (utils/pos_base.py 316-324)                                             *)
(***************************************************************************)
\* config.py 60-66, on what get_scenario_data returned
Credentials(g) ==
    [d |-> g.d,
     username |-> IF g.found THEN g.rec.user_name ELSE PyNone,
     password |-> IF g.found THEN g.rec.password ELSE PyNone]

\* config.py 58-66
config_get_user_credentials(d, scenario_name) ==
    Credentials(get_scenario_data(d, scenario_name))

\* pos_base.py 42-46
get_user_credentials(d, pos) ==
    IF Bool(pos.scenario_name) THEN config_get_user_credentials(d, pos.scenario_name.s)
    ELSE [d |-> d, username |-> PyNone, password |-> PyNone]

\* config.py 70-78 and 82-89, on what get_scenario_data returned: the dict
\* of the record's columns, or the empty dict
DictOf(g) == [d |-> g.d, empty |-> ~g.found, rec |-> g.rec]

\* config.py 68-78
config_get_item_data(d, scenario_name) == DictOf(get_scenario_data(d, scenario_name))

\* pos_base.py 48-52
get_item_data(d, pos) ==
    IF Bool(pos.scenario_name) THEN config_get_item_data(d, pos.scenario_name.s)
    ELSE [d |-> d, empty |-> TRUE, rec |-> NoRecord]

\* config.py 80-89
config_get_payment_data(d, scenario_name) == DictOf(get_scenario_data(d, scenario_name))

\* pos_base.py 54-58
get_payment_data(d, pos) ==
    IF Bool(pos.scenario_name) THEN config_get_payment_data(d, pos.scenario_name.s)
    ELSE [d |-> d, empty |-> TRUE, rec |-> NoRecord]

\* pos_base.py 30-40, on what get_scenario_data returned
Constructed(g, scenario_name) ==
    [d |-> g.d,
     pos |-> [scenario_name |-> scenario_name,
              scenario_data |-> [found |-> g.found, rec |-> g.rec]]]

\* pos_base.py 19-28: the constructor; the scenario is looked up when a
\* name is given
POSAutomation(d, scenario_name) ==
    IF Bool(scenario_name) THEN Constructed(get_scenario_data(d, scenario_name.s), scenario_name)
    ELSE [d |-> d, pos |-> NoScenario]

\* pos_base.py 319-324: with both credentials the method calls self.login,
\* which POSAutomation does not define, so an AttributeError leaves it
LoginWith(credentials) ==
    [d |-> credentials.d,
     ret |-> IF Bool(credentials.username) /\ Bool(credentials.password) THEN Raised
             ELSE PyFalse]

\* pos_base.py 316-324
execute_scenario_login(d, pos) == LoginWith(get_user_credentials(d, pos))

(***************************************************************************)
(* The fixture pos_automation_with_scenario (tests/conftest.py 82-114) and *)
(* the data-driven test (tests/pos_automation/                             *)
(* test_01_basic_cash_sale_data_driven.py 36-77)                           *)
(***************************************************************************)
\* sub in s
Contains(sub, s) ==
    \E i \in 0 .. Len(s) - Len(sub) : SubSeq(s, i + 1, i + Len(sub)) = sub

\* conftest.py 93-99: the scenario a test name stands for
ScenarioOfName(test_name) ==
    IF Contains(basic_cash_sale, test_name) THEN PyStr(basic_cash_sale)
    ELSE IF Contains(promotion_cash_sale, test_name) THEN PyStr(promotion_cash_sale)
    ELSE IF Contains(loyalty_cash_sale, test_name) THEN PyStr(loyalty_cash_sale)
    ELSE PyNone

\* conftest.py 89-99: the parameter of the request when there is one
ScenarioOfRequest(param, test_name) ==
    IF Bool(param) THEN param ELSE ScenarioOfName(test_name)

\* conftest.py 101-114, on the automation constructed: the test fails when
\* a scenario was named and no record was found, and else gets the
\* automation
Yielded(c, param, test_name) ==
    [tstIdle EXCEPT !.param = param, !.test_name = test_name, !.pos = c.pos,
                    !.pc = IF Bool(c.pos.scenario_name) /\ ~c.pos.scenario_data.found
                             THEN "done" ELSE "line39",
                    !.outcome = IF Bool(c.pos.scenario_name) /\ ~c.pos.scenario_data.found
                                  THEN "failed" ELSE "none"]

\* conftest.py 82-114
T_Fixture(param, test_name) ==
    /\ tst.pc = "idle"
    /\ tst' = Yielded(POSAutomation(dm, ScenarioOfRequest(param, test_name)), param, test_name)
    /\ dm' = POSAutomation(dm, ScenarioOfRequest(param, test_name)).d
    /\ UNCHANGED <<clicks, ui>>
    /\ UNCHANGED notTest
    /\ UNCHANGED keypadVars

\* a failed assert ends the test
Failed(t) == [t EXCEPT !.pc = "done", !.outcome = "failed"]

\* an exception ends the test
Errored(t) == [t EXCEPT !.pc = "done", !.outcome = "raised"]

\* a driver operation is invoked
Invoked(t, op) == [t EXCEPT !.calls = Append(@, op)]

\* lines 36-39
T_Line39 ==
    /\ tst.pc = "line39"
    /\ tst' = IF tst.pos.scenario_data.found THEN [tst EXCEPT !.pc = "line42"] ELSE Failed(tst)
    /\ UNCHANGED <<clicks, ui, dm>>
    /\ UNCHANGED notTest
    /\ UNCHANGED keypadVars

\* lines 42-50: the three dicts are fetched and printed; indexing an empty
\* dict raises KeyError
T_Line42 ==
    /\ tst.pc = "line42"
    /\ tst' = IF get_item_data(dm, tst.pos).empty \/ get_payment_data(dm, tst.pos).empty
                THEN Errored(tst) ELSE [tst EXCEPT !.pc = "step1"]
    /\ dm' = get_user_credentials(dm, tst.pos).d
    /\ UNCHANGED <<clicks, ui>>
    /\ UNCHANGED notTest
    /\ UNCHANGED keypadVars

\* lines 52-55 and pos_base.py 60-69: launch_pos starts the batch file and
\* returns True, or False when Popen raises
T_Launch(throws) ==
    /\ tst.pc = "step1"
    /\ tst' = IF throws THEN Failed(Invoked(tst, "launch_pos"))
                ELSE [Invoked(tst, "launch_pos") EXCEPT !.pc = "step2"]
    /\ ui' = IF throws THEN ui ELSE [ui EXCEPT !.running = @ \/ ui.bat]
    /\ UNCHANGED <<clicks, dm>>
    /\ UNCHANGED notTest
    /\ UNCHANGED keypadVars

\* lines 57-60 and pos_base.py 79-88: connect_to_pos returns True when a POS
\* window is there
T_Connect ==
    /\ tst.pc = "step2"
    /\ tst' = IF ui.running THEN [Invoked(tst, "connect_to_pos") EXCEPT !.pc = "step3"]
                ELSE Failed(Invoked(tst, "connect_to_pos"))
    /\ UNCHANGED <<clicks, ui, dm>>
    /\ UNCHANGED notTest
    /\ UNCHANGED keypadVars

\* lines 62-65: execute_scenario_login returns False or raises; lines 67-77
\* run only after it returned a true value
T_Login ==
    /\ tst.pc = "step3"
    /\ tst' = IF execute_scenario_login(dm, tst.pos).ret = Raised
                THEN Errored(Invoked(tst, "execute_scenario_login"))
                ELSE Failed(Invoked(tst, "execute_scenario_login"))
    /\ dm' = execute_scenario_login(dm, tst.pos).d
    /\ UNCHANGED <<clicks, ui>>
    /\ UNCHANGED notTest
    /\ UNCHANGED keypadVars

(***************************************************************************)
(* Specification SpecTest: one run of the data-driven test over a          *)
(* scenarios file and a machine on which the POS runs, can be launched, or *)
(* neither.                                                                *)
(***************************************************************************)
\* the name of the test of the repository
test_add_single_item_complete_with_cash_data_driven ==
    <<"t", "e", "s", "t", "_", "a", "d", "d", "_", "s", "i", "n",
      "g", "l", "e", "_", "i", "t", "e", "m", "_", "c", "o", "m",
      "p", "l", "e", "t", "e", "_", "w", "i", "t", "h", "_", "c",
      "a", "s", "h", "_", "d", "a", "t", "a", "_", "d", "r", "i",
      "v", "e", "n">>

\* a test name that holds the name of a scenario
test_basic_cash_sale == <<"t", "e", "s", "t", "_", "b", "a", "s", "i", "c", "_", "c", "a", "s", "h", "_", "s", "a", "l", "e">>

TestNames == {test_add_single_item_complete_with_cash_data_driven, test_basic_cash_sale}

\* request.param: absent, or the scenario of an indirect parametrization
Params == {PyNone, PyStr(basic_cash_sale)}

TestRows ==
    {FileRow(name, user, <<"p">>, ean, cash, <<"1">>) :
        name \in ScenarioNames, user \in {<<>>, <<"u">>}, ean \in {<<>>, <<"1", "2">>},
        cash \in {<<>>, <<"2", "0", ".", "0", "0">>}}

\* bat: the launch file starts the POS; running: a POS window is there
Desktops == [screen : {"desktop"}, bat : BOOLEAN, running : BOOLEAN]

InitTest ==
    /\ KeypadIdle
    /\ clicks = <<>>
    /\ ap = apIdle
    /\ ct = ctIdle
    /\ lg = lgIdle
    /\ tst = tstIdle
    /\ ui \in Desktops
    /\ \E file \in FilesOver(TestRows) : dm = [dmIdle EXCEPT !.file = file]

FixtureStep == \E param \in Params, test_name \in TestNames : T_Fixture(param, test_name)

LaunchStep == \E throws \in BOOLEAN : T_Launch(throws)

NextTest == FixtureStep \/ T_Line39 \/ T_Line42 \/ LaunchStep \/ T_Connect \/ T_Login

SpecTest == InitTest /\ [][NextTest]_vars

\* a required field of the record is empty
Incomplete(rec) == \E i \in 1 .. Len(required_fields) : ~NonEmpty(rec[required_fields[i]])

DriverSequence ==
    <<"launch_pos", "connect_to_pos", "execute_scenario_login",
      "execute_scenario_add_item", "execute_scenario_payment">>

\* the file holds a basic_cash_sale record with credentials, EAN and amount
BasicIsComplete ==
    /\ get_scenario_data(dm, basic_cash_sale).found
    /\ ~Incomplete(get_scenario_data(dm, basic_cash_sale).rec)
    /\ NonEmpty(get_scenario_data(dm, basic_cash_sale).rec.password)

(***************************************************************************)
(* C6: a run of the data-driven basic_cash_sale test with a complete       *)
(* record and a POS that can be launched goes through login, item entry,   *)
(* popup, cash tender, first amount and receipt "Yes" in this order and    *)
(* the payment step returns True: the run ends passed, after the five      *)
(* driver operations in order and after the clicks of the sale.            *)
(***************************************************************************)
C6_BasicCashSaleSequence ==
    (tst.pc = "done" /\ BasicIsComplete /\ (ui.bat \/ ui.running)
       /\ tst.test_name = test_add_single_item_complete_with_cash_data_driven) =>
        /\ tst.outcome = "passed"
        /\ tst.calls = DriverSequence
        /\ Len(clicks) >= 4

(***************************************************************************)
(* add_scenario and list_available_scenarios                               *)
(* (data/csv_data_manager.py 100-130)                                      *)
(***************************************************************************)
\* str() of a float kept in hundredths: 2000 is "20.0", 1999 is "19.99"
FloatToStr(n) ==
    IntToStr(n \div 100) \o <<".">>
      \o (IF n % 10 = 0 THEN <<DigitChar((n % 100) \div 10)>>
          ELSE <<DigitChar((n % 100) \div 10), DigitChar(n % 10)>>)

\* line 116: the text the writer puts in the file for a value
StrOf(v) ==
    CASE v.t = "str" -> v.s
      [] v.t = "float" -> FloatToStr(v.n)
      [] v.t = "int" -> IntToStr(v.n)
      [] v.t = "none" -> <<>>

\* line 116: the row written for a dict
WrittenRow(scenario_data) ==
    [f \in DOMAIN scenario_data |-> PyStr(StrOf(scenario_data[f]))]

\* line 111: mode 'a' appends to the file, and creates it when it is not
\* there, without a header line
AppendedFile(file, row) ==
    IF file.exists THEN [file EXCEPT !.rows = Append(@, row)]
    ELSE [exists |-> TRUE, headed |-> FALSE, rows |-> <<row>>]

\* lines 105-125, on what load_scenarios returned: a scenario of that name
\* is refused; an exception of open or of the writer gives False; else the
\* row is appended and the cache is set to None
Added(l, scenario_data, throws) ==
    IF FirstHit(l.ret, scenario_data.scenario_name.s) # 0 \/ throws
      THEN [d |-> l.d, ret |-> PyFalse]
      ELSE [d |-> [l.d EXCEPT !.file = AppendedFile(@, WrittenRow(scenario_data)),
                              !.cache = [set |-> FALSE, rows |-> <<>>]],
            ret |-> PyTrue]

\* lines 100-125
add_scenario(d, scenario_data, throws) == Added(load_scenarios(d), scenario_data, throws)

\* line 130
NamesOf(scenarios) == [i \in 1 .. Len(scenarios) |-> scenarios[i].scenario_name]

\* lines 127-130
list_available_scenarios(d) ==
    [d |-> load_scenarios(d).d, ret |-> NamesOf(load_scenarios(d).ret)]

\* a call of add_scenario; the file is kept within MaxRows rows
DM_Add(scenario_data, throws) ==
    /\ Len(dm.file.rows) < MaxRows
    /\ dm' = [add_scenario(dm, scenario_data, throws).d EXCEPT
                 !.last = [NoCall EXCEPT !.op = "add_scenario", !.hit = dm.cache.set,
                                         !.arg = scenario_data.scenario_name.s,
                                         !.ret = add_scenario(dm, scenario_data, throws).ret]]
    /\ UNCHANGED clicks
    /\ UNCHANGED notData
    /\ UNCHANGED keypadVars

\* a call of list_available_scenarios
DM_List ==
    /\ dm' = [list_available_scenarios(dm).d EXCEPT
                 !.last = [NoCall EXCEPT !.op = "list_available_scenarios",
                                         !.hit = dm.cache.set,
                                         !.names = list_available_scenarios(dm).ret]]
    /\ UNCHANGED clicks
    /\ UNCHANGED notData
    /\ UNCHANGED keypadVars

(***************************************************************************)
(* Specification SpecCache: one manager; its five operations are called in *)
(* any order while the scenarios file is edited, replaced or removed from  *)
(* outside.                                                                *)
(***************************************************************************)
\* the cash_tender_amount cells: an amount as str() writes it, not a number
CacheCells == {<<"2", "0", ".", "0">>, <<"x">>}

CacheRows ==
    {FileRow(name, <<"u">>, <<"p">>, <<"1", "2">>, cash, <<"1">>) :
        name \in ScenarioNames, cash \in CacheCells}

\* the dicts passed to add_scenario
NewScenarios ==
    {[scenario_name |-> PyStr(name), user_name |-> PyStr(<<"u">>),
      password |-> PyStr(<<"p">>), ean_code |-> PyStr(<<"1", "2">>),
      item_name |-> PyStr(<<"i">>), expected_price |-> PyStr(<<>>),
      cash_tender_amount |-> PyFloat(2000), loyalty_number |-> PyStr(<<>>),
      promotion_code |-> PyStr(<<>>), quantity |-> PyInt(1)] : name \in ScenarioNames}

InitCache ==
    /\ KeypadIdle
    /\ clicks = <<>>
    /\ ap = apIdle
    /\ ui = uiOff
    /\ ct = ctIdle
    /\ lg = lgIdle
    /\ tst = tstIdle
    /\ \E file \in FilesOver(CacheRows) : dm = [dmIdle EXCEPT !.file = file]

\* the file is replaced from outside
FileChange ==
    /\ \E file \in FilesOver(CacheRows) : file # dm.file /\ dm' = [dm EXCEPT !.file = file]
    /\ UNCHANGED clicks
    /\ UNCHANGED notData
    /\ UNCHANGED keypadVars

AddScenarioCall ==
    \E scenario_data \in NewScenarios, throws \in BOOLEAN : DM_Add(scenario_data, throws)

NextCache == DM_Load \/ GetCall \/ ValidateCall \/ DM_List \/ AddScenarioCall \/ FileChange

SpecCache == InitCache /\ [][NextCache]_vars

\* what the last call returned is what the list in the cache gives
FromCache ==
    /\ dm.last.op = "load_scenarios" => dm.last.list = dm.cache.rows
    /\ dm.last.op = "list_available_scenarios" => dm.last.names = NamesOf(dm.cache.rows)
    /\ dm.last.op \in {"get_scenario_data", "validate_scenario_data"} =>
          /\ dm.last.found = (FirstHit(dm.cache.rows, dm.last.arg) # 0)
          /\ dm.last.found => dm.last.rec = dm.cache.rows[FirstHit(dm.cache.rows, dm.last.arg)]

(***************************************************************************)
(* C11: scenario data is loaded once and cached. While the cache is set no *)
(* call changes it, whatever happens to the file, and a reading call made  *)
(* with the cache set returns what the cache holds; the cache is unset     *)
(* only by an add_scenario that returned True; a call made with the cache  *)
(* unset fills it from the file as the file is then.                       *)
(***************************************************************************)
C11_LoadedOnceAndCached ==
    [][/\ (dm.cache.set /\ dm'.cache.set) => dm'.cache = dm.cache
       /\ (dm.cache.set /\ ~dm'.cache.set) =>
             (dm'.last.op = "add_scenario" /\ dm'.last.ret = PyTrue)
       /\ (dm'.last.hit /\ dm'.last.op # "add_scenario") => FromCache'
       /\ (~dm.cache.set /\ dm'.cache.set) => dm'.cache.rows = ReadFile(dm.file).rows]_vars

\* a reading call has answered from the cache after the file was changed
C11_Witness ==
    /\ dm.last.hit
    /\ dm.last.op = "get_scenario_data"
    /\ dm.last.found
    /\ dm.cache.rows # ReadFile(dm.file).rows

(***************************************************************************)
(* The fixtures pos_session and pos_transaction (tests/conftest.py 15-63), *)
(* is_pos_running and check_nosale (utils/pos_base.py 71-77, 180-188)      *)
(***************************************************************************)
\* pos_base.py 180-188, with the No Sale button hidden counted as there
check_nosaleMutExists(u, throws) ==
    IF ~u.running \/ u.nosale = "absent" THEN PyFalse
    ELSE IF throws THEN Raised
    ELSE PyTrue

\* pos_base.py 180-188: True when the No Sale button exists and is visible;
\* is_visible raises when the button goes away after exists() found it
check_nosale(u, throws) ==
    IF ~u.running \/ u.nosale = "absent" THEN PyFalse
    ELSE IF throws THEN Raised
    ELSE IF u.nosale = "shown" THEN PyTrue
    ELSE PyFalse

\* pos_base.py 71-77: a window matching the title pattern is there
is_pos_running(u) == IF u.running THEN PyTrue ELSE PyFalse

\* pos_base.py 79-88: connecting succeeds when such a window is there
connect_to_pos(u) == IF u.running THEN PyTrue ELSE PyFalse

\* an entry of the log of a session: the operation, what it returned, and
\* the window and the No Sale button as they were then
Entry(op, ret) == [op |-> op, ret |-> ret, running |-> ui.running, nosale |-> ui.nosale]

\* an entry of the log for a step that does not look at the window
Step(op, ret) == [op |-> op, ret |-> ret, running |-> FALSE, nosale |-> "absent"]

\* the session after an operation logged as e returned: the fixture goes on
\* to pc next when it returned True, and a failed assert or an exception
\* ends it
Asserted(t, e, next) ==
    [t EXCEPT !.calls = Append(@, e),
              !.pc = IF e.ret = PyTrue THEN next ELSE "done",
              !.outcome = IF e.ret = PyTrue THEN @ ELSE IF e.ret = Raised THEN "raised" ELSE "failed"]

\* pos_base.py 60-69: launch_pos returns True once the batch file was
\* started and ten seconds have passed, False when Popen raised; the entry
\* records whether a window is there afterwards
Launched(u, throws) ==
    [op |-> "launch_pos", ret |-> IF throws THEN PyFalse ELSE PyTrue,
     running |-> u.running \/ (~throws /\ u.bat), nosale |-> u.nosale]

\* no session yet
ssIdle == [pc |-> "idle", calls |-> <<>>, tests |-> 0, outcome |-> "none"]

\* conftest.py 18-21
S_IsRunning ==
    /\ tst.pc = "idle"
    /\ tst' = [tst EXCEPT !.calls = Append(@, Entry("is_pos_running", is_pos_running(ui))),
                          !.pc = IF ui.running THEN "connect" ELSE "launch"]
    /\ UNCHANGED <<clicks, ui, lg>>
    /\ UNCHANGED notSession
    /\ UNCHANGED keypadVars

\* conftest.py 22-24
S_Launch(throws) ==
    /\ tst.pc = "launch"
    /\ tst' = Asserted(tst, Launched(ui, throws), "connect")
    /\ ui' = [ui EXCEPT !.running = Launched(ui, throws).running]
    /\ UNCHANGED <<clicks, lg>>
    /\ UNCHANGED notSession
    /\ UNCHANGED keypadVars

\* conftest.py 26-27
S_Connect ==
    /\ tst.pc = "connect"
    /\ tst' = Asserted(tst, Entry("connect_to_pos", connect_to_pos(ui)), "nosale")
    /\ UNCHANGED <<clicks, ui, lg>>
    /\ UNCHANGED notSession
    /\ UNCHANGED keypadVars

\* conftest.py 30 and 34-35: with the No Sale button the session is ready,
\* without it a login follows
S_CheckNoSale(throws) ==
    /\ tst.pc = "nosale"
    /\ tst' = IF check_nosale(ui, throws) = PyFalse
                THEN [tst EXCEPT !.calls = Append(@, Entry("check_nosale", PyFalse)),
                                 !.pc = "login"]
                ELSE Asserted(tst, Entry("check_nosale", check_nosale(ui, throws)), "yield")
    /\ UNCHANGED <<clicks, ui, lg>>
    /\ UNCHANGED notSession
    /\ UNCHANGED keypadVars

\* conftest.py 32: login_to_pos is called with the default credentials
S_Login ==
    /\ tst.pc = "login"
    /\ LG_Call(<<>>, <<>>)

\* conftest.py 32: login_to_pos has returned, or raised
S_LoginReturn ==
    /\ tst.pc = "login"
    /\ lg.pc = "done"
    /\ tst' = Asserted(tst, Step("login_to_pos", lg.result), "nosale2")
    /\ lg' = lgIdle
    /\ UNCHANGED <<clicks, ui>>
    /\ UNCHANGED notSession
    /\ UNCHANGED keypadVars

\* conftest.py 33
S_CheckAfterLogin(throws) ==
    /\ tst.pc = "nosale2"
    /\ tst' = Asserted(tst, Entry("check_nosale", check_nosale(ui, throws)), "yield")
    /\ UNCHANGED <<clicks, ui, lg>>
    /\ UNCHANGED notSession
    /\ UNCHANGED keypadVars

\* conftest.py 37: the session is handed to the tests
S_Yield ==
    /\ tst.pc = "yield"
    /\ tst' = [tst EXCEPT !.calls = Append(@, Step("yield", None)), !.pc = "tests"]
    /\ UNCHANGED <<clicks, ui, lg>>
    /\ UNCHANGED notSession
    /\ UNCHANGED keypadVars

\* conftest.py 51-57: pos_transaction checks the No Sale button before each
\* test; the test does not start when the check fails
S_Transaction(throws) ==
    /\ tst.pc = "tests"
    /\ tst.tests < MaxTests
    /\ tst' = [tst EXCEPT !.calls = Append(@, Entry("check_nosale", check_nosale(ui, throws))),
                          !.tests = @ + 1,
                          !.pc = IF check_nosale(ui, throws) = PyTrue THEN "body" ELSE "tests"]
    /\ UNCHANGED <<clicks, ui, lg>>
    /\ UNCHANGED notSession
    /\ UNCHANGED keypadVars

\* conftest.py 59: the body of the test starts
S_Body ==
    /\ tst.pc = "body"
    /\ tst' = [tst EXCEPT !.calls = Append(@, Step("body", None)), !.pc = "tests"]
    /\ UNCHANGED <<clicks, ui, lg>>
    /\ UNCHANGED notSession
    /\ UNCHANGED keypadVars

(***************************************************************************)
(* Specification SpecSession: one test session of up to MaxTests tests on  *)
(* a machine where the POS runs or not, logged in or not.                  *)
(***************************************************************************)
NoSaleStates == {"absent", "hidden", "shown"}

SessionScreens ==
    [screen : {"session"}, bat : BOOLEAN, running : BOOLEAN, nosale : NoSaleStates,
     loginBtn : ControlStates, overlay : {FALSE},
     rect : {[left |-> 0, top |-> 0, right |-> 101, bottom |-> 100]},
     userField : {"ready"}, userValue : {<<>>}, passField : {"ready"},
     okBtn : {"absent", "enabled"}]

InitSession ==
    /\ KeypadIdle
    /\ clicks = <<>>
    /\ ap = apIdle
    /\ ct = ctIdle
    /\ lg = lgIdle
    /\ dm = dmIdle
    /\ tst = ssIdle
    /\ ui \in SessionScreens

\* the POS shows, hides or removes the No Sale button, or its window closes
UIChangeSession ==
    /\ tst.pc \notin {"idle", "done"}
    /\ ui' \in {[ui EXCEPT !.nosale = n] : n \in NoSaleStates \ {ui.nosale}}
               \cup {[ui EXCEPT !.running = FALSE] : r \in {ui.running} \ {FALSE}}
    /\ UNCHANGED <<clicks, lg, tst>>
    /\ UNCHANGED notSession
    /\ UNCHANGED keypadVars

\* the steps of login_to_pos while the session waits for it
LoginSteps ==
    /\ tst.pc = "login"
    /\ \/ LG_Find1 \/ SaverStep \/ LG_Random \/ LG_ClickLogin
       \/ LG_User \/ LG_Pass \/ LG_OK

NextSession ==
    \/ S_IsRunning
    \/ \E throws \in BOOLEAN : S_Launch(throws)
    \/ S_Connect
    \/ \E throws \in BOOLEAN : S_CheckNoSale(throws)
    \/ S_Login
    \/ LoginSteps
    \/ S_LoginReturn
    \/ \E throws \in BOOLEAN : S_CheckAfterLogin(throws)
    \/ S_Yield
    \/ \E throws \in BOOLEAN : S_Transaction(throws)
    \/ S_Body
    \/ UIChangeSession

SpecSession == InitSession /\ [][NextSession]_vars

\* entry i of the log is this operation with this result
LogIs(i, op, ret) ==
    i \in 1 .. Len(tst.calls) /\ tst.calls[i].op = op /\ tst.calls[i].ret = ret

\* entry i of the log is a check that found the No Sale button shown in a
\* window that was there
CheckedReady(i) ==
    /\ LogIs(i, "check_nosale", PyTrue)
    /\ tst.calls[i].running
    /\ tst.calls[i].nosale = "shown"

(***************************************************************************)
(* C12: session readiness guard. The POS is launched only after            *)
(* is_pos_running found no window; login is attempted only right after a   *)
(* failed No Sale check that followed a successful connect; the session is *)
(* yielded only right after a No Sale check that returned True, after a    *)
(* successful connect and, where a login was made, after it returned True; *)
(* a test body starts only right after a No Sale check that returned True  *)
(* on the yielded session, the button being shown at that check.           *)
(***************************************************************************)
C12_SessionReadinessGuard ==
    \A i \in 1 .. Len(tst.calls) :
        /\ tst.calls[i].op = "launch_pos" =>
              (LogIs(i - 1, "is_pos_running", PyFalse) /\ ~tst.calls[i - 1].running)
        /\ tst.calls[i].op = "login_to_pos" =>
              (LogIs(i - 1, "check_nosale", PyFalse) /\ LogIs(i - 2, "connect_to_pos", PyTrue))
        /\ tst.calls[i].op = "yield" =>
              /\ CheckedReady(i - 1)
              /\ \E j \in 1 .. i - 1 : LogIs(j, "connect_to_pos", PyTrue) /\ tst.calls[j].running
              /\ \A j \in 1 .. i - 1 : tst.calls[j].op = "login_to_pos" => tst.calls[j].ret = PyTrue
        /\ tst.calls[i].op = "body" =>
              /\ CheckedReady(i - 1)
              /\ \E j \in 1 .. i - 1 : tst.calls[j].op = "yield"

\* a session that had to log in has started the body of its second test
C12_Witness ==
    /\ \E j \in 1 .. Len(tst.calls) : LogIs(j, "login_to_pos", PyTrue)
    /\ Cardinality({i \in 1 .. Len(tst.calls) : tst.calls[i].op = "body"}) = 2

(***************************************************************************)
(* The happy-flow scripts 02_addtems_promotion_cashSale.py and             *)
(* 03_additem_Withloyalty_cashSal.py: login_to_pos (20-88) and main        *)
(***************************************************************************)
\* the login button as login_to_pos sees it at line 48: a button that was
\* not there may be revealed by the clicks that dismiss an overlay
ButtonAfterDismiss(u, revealed) ==
    IF u.loginBtn = "absent" /\ revealed THEN "enabled" ELSE u.loginBtn

\* script lines 55-88: the fields and the sign-in OK button
script_login_fields(u) ==
    IF u.userField = "absent" THEN PyFalse
    ELSE IF u.userField # "ready" THEN Raised
    ELSE IF u.passField = "absent" THEN PyFalse
    ELSE IF u.passField # "ready" THEN Raised
    ELSE IF u.okBtn = "absent" THEN PyFalse
    ELSE IF u.okBtn = "disabled" THEN Raised
    ELSE PyTrue

\* script lines 20-88: login_to_pos connects to the window itself, which
\* raises when there is none; wait() raises on a control that is not enabled
script_login_to_pos(u, revealed) ==
    IF ~u.running THEN Raised
    ELSE IF u.loginBtn = "absent" /\ RandomPoints(u.rect) = {} THEN Raised
    ELSE IF ButtonAfterDismiss(u, revealed) = "absent" THEN PyFalse
    ELSE IF ButtonAfterDismiss(u, revealed) = "disabled" THEN Raised
    ELSE script_login_fields(u)

\* main has not started
mainIdle(script) ==
    [pc |-> "start", script |-> script, app |-> FALSE, win |-> FALSE,
     calls |-> <<>>, outcome |-> "none", failed |-> FALSE]

\* main ends with an exception
MainRaised(t, what) == [t EXCEPT !.pc = "done", !.outcome = what]

\* 03: 291-292, 02: 313-314
M_IsRunning ==
    /\ tst.pc = "start"
    /\ tst' = [tst EXCEPT !.pc = IF ui.running THEN "connect" ELSE "launch"]
    /\ UNCHANGED <<clicks, ui, lg>>
    /\ UNCHANGED notSession
    /\ UNCHANGED keypadVars

\* 03: 294-296 and 314-316: app and win are assigned; connect raises when
\* the window is not there
M_Connect ==
    /\ tst.pc \in {"connect", "connect2"}
    /\ tst' = IF ui.running
                THEN [tst EXCEPT !.app = TRUE, !.win = TRUE,
                                 !.pc = IF tst.pc = "connect" THEN "nosale" ELSE "nosale2"]
                ELSE MainRaised(tst, "ElementNotFoundError")
    /\ UNCHANGED <<clicks, ui, lg>>
    /\ UNCHANGED notSession
    /\ UNCHANGED keypadVars

\* 03: 297-300: without the No Sale button a login is attempted
M_CheckNoSale(throws) ==
    /\ tst.pc = "nosale"
    /\ tst' = IF check_nosale(ui, throws) = Raised THEN MainRaised(tst, "raised")
                ELSE [tst EXCEPT !.calls = Append(@, "check_nosale"),
                                 !.pc = IF check_nosale(ui, throws) = PyTrue
                                         THEN "add" ELSE "login"]
    /\ UNCHANGED <<clicks, ui, lg>>
    /\ UNCHANGED notSession
    /\ UNCHANGED keypadVars

\* 03: 301-308 and 313-324: after a login that returned True main checks the
\* No Sale button (connecting first when it launched the POS); after one that
\* returned False it goes on to step 3
AfterLogin(t, ret) ==
    IF ret = Raised THEN MainRaised(t, "raised")
    ELSE IF ret = PyFalse THEN [t EXCEPT !.calls = Append(@, "login_to_pos"), !.pc = "add"]
    ELSE [t EXCEPT !.calls = Append(@, "login_to_pos"),
                   !.pc = IF t.pc = "login" THEN "nosale2" ELSE "connect2"]

M_Login(revealed) ==
    /\ tst.pc \in {"login", "login2"}
    /\ tst' = AfterLogin(tst, script_login_to_pos(ui, revealed))
    /\ UNCHANGED <<clicks, ui, lg>>
    /\ UNCHANGED notSession
    /\ UNCHANGED keypadVars

\* 03: 303-306 and 317-321: the result of the check only chooses a message
M_CheckAfterLogin(throws) ==
    /\ tst.pc = "nosale2"
    /\ tst' = IF check_nosale(ui, throws) = Raised THEN MainRaised(tst, "raised")
                ELSE [tst EXCEPT !.calls = Append(@, "check_nosale"), !.pc = "add"]
    /\ UNCHANGED <<clicks, ui, lg>>
    /\ UNCHANGED notSession
    /\ UNCHANGED keypadVars

\* 03: 309-312 and 6-18: the result of launch_pos is not looked at
M_Launch(throws) ==
    /\ tst.pc = "launch"
    /\ tst' = [tst EXCEPT !.pc = "login2"]
    /\ ui' = IF throws THEN ui ELSE [ui EXCEPT !.running = @ \/ ui.bat]
    /\ UNCHANGED <<clicks, lg>>
    /\ UNCHANGED notSession
    /\ UNCHANGED keypadVars

\* the steps of main that drive the POS, and the handle each is given
DriverSteps == {"add", "add2", "basket", "loyalty", "tender", "click"}

HandleOf(step) == IF step \in {"loyalty", "tender"} THEN "app" ELSE "win"

Bound(t, step) == IF HandleOf(step) = "app" THEN t.app ELSE t.win

\* 03: 331-347 and 02: 353-372: the step after one that returned ret; the
\* promotion script ignores the result of its two product entries
StepAfter(script, step, ret) ==
    IF step = "add" /\ script = "02" THEN "add2"
    ELSE IF step = "add2" THEN "basket"
    ELSE IF step = "click" THEN "done"
    ELSE IF ~ret THEN "done"
    ELSE IF step = "add" \/ step = "basket" THEN "loyalty"
    ELSE IF step = "loyalty" THEN "tender"
    ELSE "click"

\* the steps that enter the product and inspect the basket
EntrySteps == {"add", "add2", "basket"}

\* 03: 331, 338, 345, 351-355: a step of main is reached; reading a handle
\* that was never assigned raises UnboundLocalError, otherwise the step is
\* invoked with the handle and returns ret; failed records that a step of
\* the product entry did not succeed
M_Step(ret) ==
    /\ tst.pc \in DriverSteps
    /\ tst' = IF ~Bound(tst, tst.pc) THEN MainRaised(tst, "UnboundLocalError")
                ELSE [tst EXCEPT !.calls = Append(@, tst.pc),
                                 !.failed = @ \/ (tst.pc \in EntrySteps /\ ~ret),
                                 !.pc = StepAfter(tst.script, tst.pc, ret),
                                 !.outcome = IF StepAfter(tst.script, tst.pc, ret) = "done"
                                             THEN "returned" ELSE @]
    /\ UNCHANGED <<clicks, ui, lg>>
    /\ UNCHANGED notSession
    /\ UNCHANGED keypadVars

(***************************************************************************)
(* Specification SpecScript: one run of main() of either script.           *)
(***************************************************************************)
Scripts == {"02", "03"}

InitScript ==
    /\ KeypadIdle
    /\ clicks = <<>>
    /\ ap = apIdle
    /\ ct = ctIdle
    /\ lg = lgIdle
    /\ dm = dmIdle
    /\ tst \in {mainIdle(script) : script \in Scripts}
    /\ ui \in SessionScreens

NextScript ==
    \/ M_IsRunning
    \/ M_Connect
    \/ \E throws \in BOOLEAN : M_CheckNoSale(throws)
    \/ \E revealed \in BOOLEAN : M_Login(revealed)
    \/ \E throws \in BOOLEAN : M_CheckAfterLogin(throws)
    \/ \E throws \in BOOLEAN : M_Launch(throws)
    \/ \E ret \in BOOLEAN : M_Step(ret)
    \/ UIChangeSession

SpecScript == InitScript /\ [][NextScript]_vars

ThrowPoints == {"no", "early", "late"}

\* test_01 71-108 (_check_basket_contents), test_02 80-186
\* (_check_basket_with_promotion_analysis), test_03 74-156
\* (_check_basket_for_loyalty): the verdict is True as soon as a list
\* control was found, and OK is clicked on both ordinary ways out. The
\* handlers of test_02 and test_03 return a dict that is assigned only after
\* the list control was looked for, so an early exception leaves the helper
\* as an UnboundLocalError
check_basket_contents(test, u, throws) ==
    IF throws = "early"
    THEN [ret |-> IF test = "01" THEN PyFalse ELSE Raised, clicked |-> FALSE]
    ELSE IF ~u.basketList THEN [ret |-> PyFalse, clicked |-> TRUE]
    ELSE IF throws = "late" /\ u.items > 0 THEN [ret |-> PyFalse, clicked |-> FALSE]
    ELSE [ret |-> PyTrue, clicked |-> TRUE]

\* pos_base.py 256-271 (handle_loyalty_popup, used by "01" and "02", nothing
\* caught) and test_03 164-213 (_handle_loyalty_with_integration, which
\* turns an exception into handled = False)
handle_loyalty(test, u, throws) ==
    IF throws THEN (IF test = "03" THEN PyFalse ELSE Raised)
    ELSE IF u.cancel THEN PyTrue
    ELSE PyFalse

\* the driver steps of a test in their order; the promotion test adds the
\* product twice
StepsOf(test) ==
    IF test = "02" THEN <<"add", "add", "basket", "loyalty", "tender", "cleanup">>
    ELSE <<"add", "basket", "loyalty", "tender", "cleanup">>

\* the body of a test has not started
bodyIdle(test) == [pc |-> "step", test |-> test, at |-> 1, calls |-> <<>>, outcome |-> "none"]

\* the step the test is at
AtStep(step) == tst.pc = "step" /\ StepsOf(tst.test)[tst.at] = step

\* a test that goes on to its next step whatever the step returned
AssertedStepMutGoOn(t, entries, ret) ==
    [t EXCEPT !.calls = @ \o entries, !.at = @ + 1]

\* the assert on the result of a step: the test goes on when it is True and
\* ends otherwise
AssertedStep(t, entries, ret) ==
    [t EXCEPT !.calls = @ \o entries,
              !.at = IF ret = PyTrue THEN @ + 1 ELSE @,
              !.pc = IF ret = PyTrue THEN "step" ELSE "done",
              !.outcome = IF ret = PyTrue THEN @ ELSE IF ret = Raised THEN "raised" ELSE "failed"]

\* test_02 42-51, test_03 42-45, test_01 40-43
B_Add(ret) ==
    /\ AtStep("add")
    /\ tst' = AssertedStep(tst, <<[op |-> "add_product_by_ean", ret |-> ret, items |-> ui.items]>>, ret)
    /\ UNCHANGED <<clicks, ui, lg>>
    /\ UNCHANGED notSession
    /\ UNCHANGED keypadVars

\* the OK click of the basket check, when it is made
OkClick(r) ==
    IF r.clicked THEN <<[op |-> "click_button_by_text", ret |-> None, items |-> ui.items]>>
    ELSE <<>>

\* test_02 53-56, test_03 47-50, test_01 45-48
Checked(t, r) ==
    AssertedStep(t, OkClick(r) \o <<[op |-> "basket", ret |-> r.ret,
                                      items |-> IF ui.basketList THEN ui.items ELSE 0]>>, r.ret)

B_Basket(throws) ==
    /\ AtStep("basket")
    /\ tst' = Checked(tst, check_basket_contents(tst.test, ui, throws))
    /\ UNCHANGED <<clicks, ui, lg>>
    /\ UNCHANGED notSession
    /\ UNCHANGED keypadVars

\* test_02 61-64, test_03 55-58, test_01 53-56
B_Loyalty(throws) ==
    /\ AtStep("loyalty")
    /\ tst' = AssertedStep(tst, <<[op |-> "loyalty", ret |-> handle_loyalty(tst.test, ui, throws),
                                   items |-> ui.items]>>,
                           handle_loyalty(tst.test, ui, throws))
    /\ UNCHANGED <<clicks, ui, lg>>
    /\ UNCHANGED notSession
    /\ UNCHANGED keypadVars

\* test_02 69-72, test_03 63-66, test_01 61-64
B_Tender(ret) ==
    /\ AtStep("tender")
    /\ tst' = AssertedStep(tst, <<[op |-> "complete_cash_tender", ret |-> ret, items |-> ui.items]>>, ret)
    /\ UNCHANGED <<clicks, ui, lg>>
    /\ UNCHANGED notSession
    /\ UNCHANGED keypadVars

\* test_02 78 and 188-199: the cleanup click, after which the test has passed
B_Cleanup ==
    /\ AtStep("cleanup")
    /\ tst' = [tst EXCEPT !.calls = Append(@, [op |-> "cleanup", ret |-> None, items |-> ui.items]),
                          !.pc = "done", !.outcome = "passed"]
    /\ UNCHANGED <<clicks, ui, lg>>
    /\ UNCHANGED notSession
    /\ UNCHANGED keypadVars

(***************************************************************************)
(* Specification SpecScenario: the body of one cash-sale test on a sale    *)
(* screen whose basket and loyalty popup the POS changes between steps.    *)
(***************************************************************************)
CashSaleTests == {"01", "02", "03"}

SaleScreens ==
    [screen : {"sale"}, basketList : BOOLEAN, items : 0 .. MaxItems, cancel : BOOLEAN]

InitScenario ==
    /\ KeypadIdle
    /\ clicks = <<>>
    /\ ap = apIdle
    /\ ct = ctIdle
    /\ lg = lgIdle
    /\ dm = dmIdle
    /\ tst \in {bodyIdle(test) : test \in CashSaleTests}
    /\ ui \in [screen : {"sale"}, basketList : BOOLEAN, items : {0}, cancel : BOOLEAN]

\* the POS puts a line into the basket after a product entry, or shows or
\* takes away the loyalty popup's Cancel button
UIChangeScenario ==
    /\ tst.pc = "step"
    /\ tst.at > 1
    /\ ui' \in {[ui EXCEPT !.items = @ + 1] : k \in {ui.items} \ {MaxItems}}
               \cup {[ui EXCEPT !.cancel = ~@]}
    /\ UNCHANGED <<clicks, lg, tst>>
    /\ UNCHANGED notSession
    /\ UNCHANGED keypadVars

NextScenario ==
    \/ \E ret \in {PyTrue, PyFalse} : B_Add(ret)
    \/ \E throws \in ThrowPoints : B_Basket(throws)
    \/ \E throws \in BOOLEAN : B_Loyalty(throws)
    \/ \E ret \in {PyTrue, PyFalse} : B_Tender(ret)
    \/ B_Cleanup
    \/ UIChangeScenario

SpecScenario == InitScenario /\ [][NextScenario]_vars

\* entries of the log that are driver steps or the cleanup
IsStep(e) == e.op # "click_button_by_text"

(***************************************************************************)
(* C14: a single failed step aborts the whole scenario. In the promotion   *)
(* and loyalty tests a driver step is in the log only if every step before *)
(* it returned True; a step that did not return True is the last entry of  *)
(* the log (nothing is invoked or clicked after it); and the cleanup click *)
(* is there only after complete_cash_tender returned True.                 *)
(***************************************************************************)
C14_FailedStepAborts ==
    tst.test \in {"02", "03"} =>
        \A i \in 1 .. Len(tst.calls) :
            /\ (IsStep(tst.calls[i]) /\ tst.calls[i].op # "cleanup" /\ tst.calls[i].ret # PyTrue) =>
                  (i = Len(tst.calls) /\ tst.pc = "done" /\ tst.outcome \in {"failed", "raised"})
            /\ tst.calls[i].op = "cleanup" =>
                  (i > 1 /\ tst.calls[i - 1].op = "complete_cash_tender" /\ tst.calls[i - 1].ret = PyTrue)

\* the loyalty step of the promotion test failed after two product entries
\* and a verified basket
C14_Witness ==
    /\ tst.test = "02"
    /\ Len(tst.calls) = 5
    /\ tst.calls[5].op = "loyalty"
    /\ tst.calls[5].ret = PyFalse
    /\ tst.pc = "done"

(***************************************************************************)
(* C17: the basket verification verifies that the product is in the        *)
(* basket: the basket check gives the verdict True only if the basket list *)
(* shows at least one item line.                                           *)
(***************************************************************************)
C17_BasketVerifiedOnlyWithItems ==
    \A i \in 1 .. Len(tst.calls) :
        (tst.calls[i].op = "basket" /\ tst.calls[i].ret = PyTrue) => tst.calls[i].items >= 1

(***************************************************************************)
(* C15: a test marked to run with a scenario receives that scenario's data.*)
(* When pos_automation_with_scenario has yielded to the data-driven test   *)
(* of the class marked scenario(name='basic_cash_sale'), which is          *)
(* collected without a parameter, the POSAutomation it yielded has         *)
(* scenario_name 'basic_cash_sale' and the loaded record of that scenario. *)
(***************************************************************************)
C15_MarkedTestReceivesScenario ==
    (/\ tst.pc = "line39"
     /\ tst.test_name = test_add_single_item_complete_with_cash_data_driven
     /\ tst.param = PyNone) =>
        (tst.pos.scenario_name = PyStr(basic_cash_sale) /\ tst.pos.scenario_data.found)

(***************************************************************************)
(* C16: window/session locator. The session setup attaches to a running    *)
(* POS window or launches the POS and goes on only when a matching window  *)
(* is there: connect_to_pos is attempted only when such a window exists    *)
(* at that moment or existed at the last step before, and a launch after   *)
(* which no window is there is not reported as True.                       *)
(***************************************************************************)
C16_WindowBeforeConnect ==
    \A i \in 1 .. Len(tst.calls) :
        /\ LogIs(i, "launch_pos", PyTrue) => tst.calls[i].running
        /\ tst.calls[i].op = "connect_to_pos" =>
              (tst.calls[i].running \/ tst.calls[i - 1].running)

\* the clicks and keystrokes of the call that are the random click of
\* _dismiss_overlays
WindowClicks == {i \in 1 .. Len(clicks) : clicks[i].ctl = "window"}

\* the call typed a credential or clicked the sign-in OK button
TypedOrSignedIn ==
    \E i \in 1 .. Len(clicks) : clicks[i].ctl \in {"UserName", "Password", "UCSignInOKButton"}

\* the random click is inside the window, a margin away from its edges
InsideMargins(c) ==
    /\ c.rect.left + ClickMargin <= c.x /\ c.x <= c.rect.right - ClickMargin
    /\ c.rect.top + ClickMargin <= c.y /\ c.y <= c.rect.bottom - ClickMargin

\* the fallback as the claim describes it: one random click inside the
\* margins, a second lookup, and False without typing when that fails too
FallbackDone ==
    /\ Cardinality(WindowClicks) = 1
    /\ \A i \in WindowClicks : InsideMargins(clicks[i])
    /\ Len(lg.lookups) = 2
    /\ ~lg.lookups[2] => (lg.result = PyFalse /\ ~TypedOrSignedIn)

\* the window is at least two margins wide and high
RoomForClick(rect) ==
    /\ rect.right - rect.left >= 2 * ClickMargin
    /\ rect.bottom - rect.top >= 2 * ClickMargin

ClearClicks ==
    Cardinality({i \in ce.clicks0 + 1 .. Len(clicks) : clicks[i].wanted = "<<"})

\* the fields of the pass under way that have been tested or are under test
FieldsReached == IF ce.f > Len(fields) THEN Len(fields) ELSE ce.f

(***************************************************************************)
(* C19: the EAN-clearing loop is bounded and signals nothing on            *)
(* exhaustion. _clear_ean_field makes at most 20 passes and at most one    *)
(* "<<" click for each field in a pass; it ends either with "cleared"      *)
(* reported once or, after the 20th pass, with nothing reported; and       *)
(* add_product_by_ean goes on to the digits and "OK" in both cases: it     *)
(* returns False only when the click for a key failed.                     *)
(***************************************************************************)
C19_ClearBoundedAndSilent ==
    /\ ce.attempt <= max_clear_attempts
    /\ ce.pc \in {"field", "wait"} =>
          ClearClicks <= (ce.attempt - 1) * Len(fields) + FieldsReached
    /\ ce.pc \in {"for", "done"} => ClearClicks <= ce.attempt * Len(fields)
    /\ ce.pc = "done" =>
          \/ ce.reported = 1
          \/ ce.reported = 0 /\ ce.attempt = max_clear_attempts
    /\ ap.pc \in {"digits", "waitDigit", "waitOK", "done"} =>
          /\ ce.pc = "done"
          /\ IsPrefix(EnteredKeys, Append(ap.ean, "OK"))
          /\ (ap.pc = "done" /\ ap.result = PyTrue) => EnteredKeys = Append(ap.ean, "OK")
          /\ (ap.pc = "done" /\ ap.result = PyFalse) =>
                (ap.idx >= 1 /\ Len(EnteredKeys) = ap.idx - 1)

\* the clearing gave up after 20 passes on a field that still holds a
\* character, and the product was entered all the same
C19_Witness ==
    /\ ap.pc = "done"
    /\ ap.result = PyTrue
    /\ Len(ap.ean) = 2
    /\ ce.attempt = max_clear_attempts
    /\ ce.reported = 0
    /\ ~AllEmpty(fields)

(***************************************************************************)
(* Specification SpecClearLong: calls of _clear_ean_field on a window with *)
(* one edit field of up to MaxChars characters, which changes only through *)
(* the routine's own clicks: a click on an enabled "<<" takes one          *)
(* character away.                                                         *)
(***************************************************************************)
\* an edit field holding n digits
Digits7(n) == [i \in 1 .. n |-> "7"]

InitClearLong ==
    /\ buttons \in [{1} -> ButtonsOver(ClearTexts)]
    /\ \E n \in 0 .. MaxChars : fields = <<Digits7(n)>>
    /\ defaultTimeout \in {MaxTimeout}
    /\ cb = cbIdle
    /\ ce = ceIdle
    /\ clicks = <<>>
    /\ everMatch = FALSE
    /\ OuterIdle

SpecClearLong == InitClearLong /\ [][NextClear]_vars

(***************************************************************************)
(* C20: "cleared" is reported exactly when the field ends up empty. When   *)
(* _clear_ean_field has returned, it has printed "EAN field cleared" if    *)
(* and only if every edit field is empty, for a single field of any        *)
(* number n of characters.                                                 *)
(***************************************************************************)
C20_ClearedIffEmpty ==
    ce.pc = "done" => (ce.reported >= 1 <=> AllEmpty(fields))

(***************************************************************************)
(* C21: execute_scenario_login logs in with the scenario's credentials.    *)
(* It returns the boolean result of the login made with them, or False     *)
(* when a credential is missing; in no case does it raise: a test whose    *)
(* last driver operation is execute_scenario_login has not ended with an   *)
(* exception.                                                              *)
(***************************************************************************)
C21_ScenarioLoginNeverRaises ==
    (/\ tst.pc = "done"
     /\ Len(tst.calls) = 3
     /\ tst.calls[3] = "execute_scenario_login") => tst.outcome # "raised"

(***************************************************************************)
(* A POSAutomation built for a scenario, and its scenario-driven methods   *)
(* called one after another while the scenarios file and the data manager  *)
(* change (pos_base.py 19-58 and 316-346).                                 *)
(***************************************************************************)

\* pos_base.py 369-385: add_item_by_ean is a placeholder that prints and
\* returns True
add_item_by_ean(ean_code) == PyTrue

\* range(quantity) of line 336 for an int
Range(n) == IF n > 0 THEN n ELSE 0

\* pos_base.py 336-343: the loop over range(quantity); every addition
\* succeeds, so the loop ends after all of them
AddLoop(ean_code, quantity) ==
    IF \A i \in 1 .. Range(quantity) : add_item_by_ean(ean_code) = PyTrue
      THEN [ret |-> PyTrue, added |-> Range(quantity)]
      ELSE [ret |-> PyFalse, added |-> 0]

\* pos_base.py 329-346, on the dict get_item_data returned: range() raises
\* TypeError for a quantity that is not an int
AddItems(item) ==
    IF item.empty \/ ~Bool(item.rec.ean_code)
      THEN [d |-> item.d, ret |-> PyFalse, added |-> 0, rec |-> item.rec]
    ELSE IF item.rec.quantity.t # "int"
      THEN [d |-> item.d, ret |-> Raised, added |-> 0, rec |-> item.rec]
    ELSE [d |-> item.d, ret |-> AddLoop(item.rec.ean_code, item.rec.quantity.n).ret,
          added |-> AddLoop(item.rec.ean_code, item.rec.quantity.n).added,
          rec |-> item.rec]

\* pos_base.py 326-346
execute_scenario_add_item(d, pos) == AddItems(get_item_data(d, pos))

\* no driver has been built; last is the last method called, what it
\* returned and, for execute_scenario_add_item, the number of additions
posIdle ==
    [pc |-> "new", pos |-> NoScenario,
     last |-> [op |-> "none", ret |-> None, added |-> 0, empty |-> TRUE, rec |-> NoRecord,
               username |-> PyNone, password |-> PyNone]]

\* POSAutomation(scenario_name)
P_Construct(scenario_name) ==
    /\ tst.pc = "new"
    /\ dm' = POSAutomation(dm, PyStr(scenario_name)).d
    /\ tst' = [tst EXCEPT !.pc = "ready",
                          !.pos = POSAutomation(dm, PyStr(scenario_name)).pos]
    /\ UNCHANGED <<ap, ui, ct, lg, clicks>>
    /\ UNCHANGED keypadVars

\* pos.get_user_credentials()
P_Credentials ==
    /\ tst.pc = "ready"
    /\ dm' = get_user_credentials(dm, tst.pos).d
    /\ tst' = [tst EXCEPT !.last = [posIdle.last EXCEPT
                  !.op = "get_user_credentials",
                  !.username = get_user_credentials(dm, tst.pos).username,
                  !.password = get_user_credentials(dm, tst.pos).password]]
    /\ UNCHANGED <<ap, ui, ct, lg, clicks>>
    /\ UNCHANGED keypadVars

\* pos.get_item_data()
P_Item ==
    /\ tst.pc = "ready"
    /\ dm' = get_item_data(dm, tst.pos).d
    /\ tst' = [tst EXCEPT !.last = [posIdle.last EXCEPT
                  !.op = "get_item_data",
                  !.empty = get_item_data(dm, tst.pos).empty,
                  !.rec = get_item_data(dm, tst.pos).rec]]
    /\ UNCHANGED <<ap, ui, ct, lg, clicks>>
    /\ UNCHANGED keypadVars

\* pos.get_payment_data()
P_Payment ==
    /\ tst.pc = "ready"
    /\ dm' = get_payment_data(dm, tst.pos).d
    /\ tst' = [tst EXCEPT !.last = [posIdle.last EXCEPT
                  !.op = "get_payment_data",
                  !.empty = get_payment_data(dm, tst.pos).empty,
                  !.rec = get_payment_data(dm, tst.pos).rec]]
    /\ UNCHANGED <<ap, ui, ct, lg, clicks>>
    /\ UNCHANGED keypadVars

\* pos.execute_scenario_add_item()
P_AddItem ==
    /\ tst.pc = "ready"
    /\ dm' = execute_scenario_add_item(dm, tst.pos).d
    /\ tst' = [tst EXCEPT !.last = [posIdle.last EXCEPT
                  !.op = "execute_scenario_add_item",
                  !.ret = execute_scenario_add_item(dm, tst.pos).ret,
                  !.added = execute_scenario_add_item(dm, tst.pos).added,
                  !.empty = get_item_data(dm, tst.pos).empty,
                  !.rec = execute_scenario_add_item(dm, tst.pos).rec]]
    /\ UNCHANGED <<ap, ui, ct, lg, clicks>>
    /\ UNCHANGED keypadVars

\* the rows of the file, all of one scenario: the item's code and the
\* quantity may be left empty
PosRows ==
    {FileRow(basic_cash_sale, <<"u">>, <<"p">>, cells[1], <<"2", "0", ".", "0">>, cells[2]) :
        cells \in {<<<<"1", "2">>, <<>>>>, <<<<"1", "2">>, <<"2">>>>, <<<<>>, <<"2">>>>}}

InitPos ==
    /\ KeypadIdle
    /\ clicks = <<>>
    /\ ap = apIdle
    /\ ui = uiOff
    /\ ct = ctIdle
    /\ lg = lgIdle
    /\ tst = posIdle
    /\ \E file \in FilesOver(PosRows) : dm = [dmIdle EXCEPT !.file = file]

\* the file is replaced from outside
PosFileChange ==
    /\ \E file \in FilesOver(PosRows) : file # dm.file /\ dm' = [dm EXCEPT !.file = file]
    /\ UNCHANGED clicks
    /\ UNCHANGED notData
    /\ UNCHANGED keypadVars

ConstructCall == \E scenario_name \in ScenarioNames : P_Construct(scenario_name)

NextPos ==
    \/ ConstructCall
    \/ P_Credentials
    \/ P_Item
    \/ P_Payment
    \/ P_AddItem
    \/ AddScenarioCall
    \/ PosFileChange

SpecPos == InitPos /\ [][NextPos]_vars

\* the quantity cell of the item, and whether it was given
QuantityGiven(rec) == Bool(rec.quantity)

(***************************************************************************)
(* C22: execute_scenario_add_item adds the item exactly quantity times.    *)
(* With no record or an empty ean_code it returns False and adds nothing;  *)
(* otherwise it returns True after as many additions as the quantity, and  *)
(* after one addition when the quantity is not given.                      *)
(***************************************************************************)
C22_AddsQuantityTimes ==
    tst.last.op = "execute_scenario_add_item" =>
        IF tst.last.empty \/ ~Bool(tst.last.rec.ean_code)
          THEN tst.last.ret = PyFalse /\ tst.last.added = 0
          ELSE /\ tst.last.ret = PyTrue
               /\ tst.last.added = IF QuantityGiven(tst.last.rec)
                                     THEN tst.last.rec.quantity.n ELSE 1

\* the fields of the record loaded at construction that each accessor
\* reports (config.py 62-65, 73-78 and 85-89)
SameItem(rec, loaded) ==
    /\ rec.ean_code = loaded.ean_code
    /\ rec.item_name = loaded.item_name
    /\ rec.expected_price = loaded.expected_price
    /\ rec.quantity = loaded.quantity

SamePayment(rec, loaded) ==
    /\ rec.cash_tender_amount = loaded.cash_tender_amount
    /\ rec.loyalty_number = loaded.loyalty_number
    /\ rec.promotion_code = loaded.promotion_code

(***************************************************************************)
(* C30: the scenario record is immutable once loaded. For a driver built   *)
(* with a scenario that was found, whatever calls of the driver and of the *)
(* data manager and whatever changes of the file came after, what          *)
(* get_user_credentials, get_item_data and get_payment_data return equals  *)
(* the corresponding fields of scenario_data as loaded at construction.    *)
(***************************************************************************)
C30_AccessorsMatchLoaded ==
    (tst.pc = "ready" /\ tst.pos.scenario_data.found) =>
        /\ tst.last.op = "get_user_credentials" =>
              /\ tst.last.username = tst.pos.scenario_data.rec.user_name
              /\ tst.last.password = tst.pos.scenario_data.rec.password
        /\ tst.last.op = "get_item_data" =>
              /\ ~tst.last.empty
              /\ SameItem(tst.last.rec, tst.pos.scenario_data.rec)
        /\ tst.last.op = "get_payment_data" =>
              /\ ~tst.last.empty
              /\ SamePayment(tst.last.rec, tst.pos.scenario_data.rec)

(***************************************************************************)
(* Specification SpecManager: one manager is the only user of the          *)
(* scenarios file; its five operations are called in any order, from any   *)
(* state of the file.                                                      *)
(***************************************************************************)
NextManager == DM_Load \/ GetCall \/ ValidateCall \/ DM_List \/ AddScenarioCall

SpecManager == InitCache /\ [][NextManager]_vars

(***************************************************************************)
(* C26: load_scenarios is stable across calls. A call of load_scenarios    *)
(* that directly follows another one returns the same list as that one,    *)
(* whatever the file held at the first call: well formed, missing, or with *)
(* a row whose numeric field does not convert.                             *)
(***************************************************************************)
C26_LoadStable ==
    [][(dm.last.op = "load_scenarios" /\ dm'.last.op = "load_scenarios")
          => dm'.last.list = dm.last.list]_vars

\* no two rows have the same scenario_name
DistinctNames(rows) ==
    \A i, j \in 1 .. Len(rows) : rows[i].scenario_name = rows[j].scenario_name => i = j

(***************************************************************************)
(* C27: scenario names stay unique. When the names in the file are         *)
(* pairwise distinct, they still are after any call of the manager,        *)
(* add_scenario included.                                                  *)
(***************************************************************************)
C27_NamesStayUnique ==
    [][DistinctNames(dm.file.rows) => DistinctNames(dm'.file.rows)]_vars

\* the dict that was passed to add_scenario under a name
GivenScenario(name) == CHOOSE d \in NewScenarios : d.scenario_name.s = name

\* the name is in a list of names
Listed(names, name) == \E i \in 1 .. Len(names) : names[i].s = name

(***************************************************************************)
(* C28: add_scenario and get_scenario_data round-trip. Directly after      *)
(* add_scenario(d) returned True, get_scenario_data of d's name returns a  *)
(* record whose ten fields equal those of d, and                           *)
(* list_available_scenarios contains the name, whatever the file was       *)
(* before: with rows, header only, or absent.                              *)
(***************************************************************************)
C28_AddGetRoundTrip ==
    [][(dm.last.op = "add_scenario" /\ dm.last.ret = PyTrue) =>
          /\ (dm'.last.op = "get_scenario_data" /\ dm'.last.arg = dm.last.arg) =>
                (dm'.last.found /\ dm'.last.rec = GivenScenario(dm.last.arg))
          /\ dm'.last.op = "list_available_scenarios" =>
                Listed(dm'.last.names, dm.last.arg)]_vars

\* main has invoked one of the steps
HasInvoked(steps) == \E i \in 1 .. Len(tst.calls) : tst.calls[i] \in steps

(***************************************************************************)
(* C29: the happy-flow scripts tender only after a successful product      *)
(* entry. In a run of main() of either script, handle_loyalty_popup and    *)
(* complete_cash_tender have been invoked only if no step of the product   *)
(* entry (the digits and OK, the basket control) has failed.               *)
(***************************************************************************)
C29_TenderAfterEntry ==
    HasInvoked({"loyalty", "tender"}) => ~tst.failed

(***************************************************************************)
(* Specification SpecAddFair: SpecAdd in which the program keeps running.  *)
(* Every UI query returns and the clock advances, so whichever step of     *)
(* add_product_by_ean, _clear_ean_field or click_button_by_text comes next *)
(* is eventually taken; nothing is assumed of what the POS does to the     *)
(* buttons.                                                                *)
(***************************************************************************)
AddProgram ==
    \/ AddCall \/ AP_AfterClear \/ AP_Digit \/ AP_DigitReturn \/ AP_OKReturn
    \/ CE_For \/ CE_Field \/ CE_Return
    \/ CB_While \/ CB_Scan \/ CB_After

SpecAddFair == SpecAdd /\ WF_vars(AddProgram)

(***************************************************************************)
(* C25: every polling primitive terminates. A call of                      *)
(* click_button_by_text that has started returns, a call of                *)
(* _clear_ean_field that has started returns, and so add_product_by_ean    *)
(* returns for every EAN, whatever the POS does to the buttons meanwhile.  *)
(***************************************************************************)
C25_PollingTerminates ==
    /\ (cb.pc = "while") ~> (cb.pc = "done")
    /\ (ce.pc = "for") ~> (ce.pc = "done")
    /\ (ap.pc = "clearing") ~> (ap.pc = "done" /\ ap.result \in {PyTrue, PyFalse})

\* add_product_by_ean has returned although the field never became empty
\* and no "<<" could be clicked in any of the 20 passes
C25_Witness ==
    /\ ap.pc = "done"
    /\ ap.result = PyFalse
    /\ ce.pc = "done"
    /\ ce.attempt = max_clear_attempts
    /\ ce.reported = 0
    /\ ClearClicks = 0
    /\ ~AllEmpty(fields)

(***************************************************************************)
(* _check_basket_with_promotion_analysis                                   *)
(* (tests/pos_automation/test_02_promotion_cash_sale.py 80-186) and the    *)
(* steps of the promotion test that follow it (54-76).                     *)
(***************************************************************************)

\* line 122: any(c in txt for c in ["$", ".", ","])
PriceLike(txt) == \E i \in 1 .. Len(txt) : txt[i] \in {"$", ".", ","}

\* str.replace(c, "")
Without(txt, c) == SelectSeq(txt, LAMBDA x : x # c)

\* float of a text without surrounding blanks, with its sign
SignedFloat(t) ==
    IF t # <<>> /\ Head(t) = "-"
      THEN [ok |-> FloatOfStripped(Tail(t)).ok, n |-> 0 - FloatOfStripped(Tail(t)).n]
    ELSE IF t # <<>> /\ Head(t) = "+" THEN FloatOfStripped(Tail(t))
    ELSE FloatOfStripped(t)

\* line 124: float(txt.replace("$", "").replace(",", "").strip())
PriceValue(txt) == SignedFloat(Strip(Without(Without(txt, "$"), ",")))

\* str.isdigit()
IsDigit(txt) == txt # <<>> /\ AllDigits(txt)

\* price = None of line 114
NoPrice == [has |-> FALSE, n |-> 0]

\* lines 118-127: the children are gone through in order; a price-like text
\* that converts replaces the price found before
RECURSIVE ScanPrice(_, _)
ScanPrice(children, price) ==
    IF children = <<>> THEN price
    ELSE ScanPrice(Tail(children),
                   IF PriceLike(Head(children)) /\ PriceValue(Head(children)).ok
                     THEN [has |-> TRUE, n |-> PriceValue(Head(children)).n]
                     ELSE price)

\* lines 118-130: an all-digit text replaces the quantity found before
RECURSIVE ScanQuantity(_, _)
ScanQuantity(children, quantity) ==
    IF children = <<>> THEN quantity
    ELSE ScanQuantity(Tail(children),
                      IF IsDigit(Head(children))
                        THEN [has |-> TRUE, n |-> DigitsVal(Head(children))]
                        ELSE quantity)

\* any(keyword in name.lower() for keyword in keywords)
HasKeyword(name, keywords) == \E keyword \in keywords : Contains(keyword, Lower(name))

promotion == <<"p", "r", "o", "m", "o", "t", "i", "o", "n">>
bonus == <<"b", "o", "n", "u", "s">>
discount == <<"d", "i", "s", "c", "o", "u", "n", "t">>
ff == <<"f", "f">>

\* the line counts as a promotion without the keyword "discount"
PromoLineMutNoDiscount(name, price) ==
    price.n < 0 \/ HasKeyword(name, {promotion, bonus})

\* line 139
PromoLine(name, price) ==
    price.n < 0 \/ HasKeyword(name, {promotion, bonus, discount})

\* lines 136-146, for one item with the price found
Accumulated(acc, name, price) ==
    [total |-> acc.total + (IF price.has THEN price.n ELSE 0),
     promo_total |-> acc.promo_total
                       + (IF price.has /\ PromoLine(name, price) THEN price.n ELSE 0),
     promotion_found |-> \/ acc.promotion_found
                         \/ price.has /\ PromoLine(name, price)
                         \/ HasKeyword(name, {promotion, bonus, ff, discount})]

\* lines 111-146: the loop over the items
RECURSIVE ItemLoop(_, _)
ItemLoop(items, acc) ==
    IF items = <<>> THEN acc
    ELSE ItemLoop(Tail(items),
                  Accumulated(acc, Head(items).name,
                              ScanPrice(Head(items).children, NoPrice)))

\* lines 107-109
NoTotals == [total |-> 0, promo_total |-> 0, promotion_found |-> FALSE]

\* lines 93-100
NoPromotionData ==
    [basket_verified |-> FALSE, total_items |-> 0, total_amount |-> 0,
     promotion_amount |-> 0, promotion_found |-> FALSE,
     summary |-> [items |-> 0, total |-> 0, discounted |-> FALSE, discount |-> 0]]

\* lines 157-163: the summary names the discount when promo_total < 0, and
\* says "No discount" otherwise
Summary(n, acc) ==
    [items |-> n, total |-> acc.total,
     discounted |-> acc.promo_total < 0,
     discount |-> IF acc.promo_total < 0 THEN acc.promo_total ELSE 0]

\* lines 149-170: the dict after the loop
PromotionData(n, acc) ==
    [basket_verified |-> TRUE, total_items |-> n, total_amount |-> acc.total,
     promotion_amount |-> acc.promo_total, promotion_found |-> acc.promotion_found,
     summary |-> Summary(n, acc)]

\* the verdict is True only when the total is the scenario's expected price
check_basket_with_promotion_analysisMutReconcile(pos, u, throws) ==
    IF throws = "early" THEN [raised |-> TRUE, data |-> NoPromotionData, clicked |-> FALSE]
    ELSE IF ~u.basketList
      THEN [raised |-> FALSE, data |-> NoPromotionData, clicked |-> TRUE]
    ELSE IF throws = "late"
      THEN [raised |-> FALSE, data |-> NoPromotionData, clicked |-> FALSE]
    ELSE [raised |-> FALSE,
          data |-> [PromotionData(Len(u.items), ItemLoop(u.items, NoTotals)) EXCEPT
                       !.basket_verified =
                           (pos.scenario_data.rec.expected_price
                              = PyFloat(ItemLoop(u.items, NoTotals).total))],
          clicked |-> TRUE]

\* lines 80-186. An exception before the dict is assigned (lines 86-91)
\* leaves the helper as an UnboundLocalError, a later one returns the dict
\* as it is; otherwise OK is clicked and the dict returned, verified when a
\* list control was found. pos is used for its window only
check_basket_with_promotion_analysis(pos, u, throws) ==
    IF throws = "early" THEN [raised |-> TRUE, data |-> NoPromotionData, clicked |-> FALSE]
    ELSE IF ~u.basketList
      THEN [raised |-> FALSE, data |-> NoPromotionData, clicked |-> TRUE]
    ELSE IF throws = "late"
      THEN [raised |-> FALSE, data |-> NoPromotionData, clicked |-> FALSE]
    ELSE [raised |-> FALSE,
          data |-> PromotionData(Len(u.items), ItemLoop(u.items, NoTotals)),
          clicked |-> TRUE]

\* the promotion test is about to check the basket (line 54)
promoIdle(pos) ==
    [pc |-> "basket", pos |-> pos, data |-> NoPromotionData, actions |-> <<>>,
     lines |-> <<>>, outcome |-> "none", throws |-> "no"]

\* what line 132-134 print for the items: the price and the quantity found
PrintedLines(items) ==
    [i \in 1 .. Len(items) |->
        [price |-> ScanPrice(items[i].children, NoPrice),
         quantity |-> ScanQuantity(items[i].children, NoPrice)]]

\* the test after the helper returned r (lines 54-55)
AfterBasket(t, r, items) ==
    IF r.raised THEN [t EXCEPT !.pc = "done", !.outcome = "raised"]
    ELSE [t EXCEPT !.data = r.data,
                   !.lines = IF r.data.basket_verified THEN PrintedLines(items) ELSE <<>>,
                   !.actions = IF r.clicked THEN Append(@, "click_button_by_text") ELSE @,
                   !.pc = IF r.data.basket_verified THEN "loyalty" ELSE "done",
                   !.outcome = IF r.data.basket_verified THEN @ ELSE "failed"]

\* lines 54-55
K_Basket(throws) ==
    /\ tst.pc = "basket"
    /\ tst' = [AfterBasket(tst, check_basket_with_promotion_analysis(tst.pos, ui, throws),
                           ui.items) EXCEPT !.throws = throws]
    /\ UNCHANGED <<ui, clicks, dm, ap, ct, lg>>
    /\ UNCHANGED keypadVars

\* lines 61-63: handle_loyalty_popup, which answers ret
K_Loyalty(ret) ==
    /\ tst.pc = "loyalty"
    /\ tst' = [tst EXCEPT !.actions = Append(@, "handle_loyalty_popup"),
                          !.pc = IF ret THEN "tender" ELSE "done",
                          !.outcome = IF ret THEN @ ELSE "failed"]
    /\ UNCHANGED <<ui, clicks, dm, ap, ct, lg>>
    /\ UNCHANGED keypadVars

\* lines 69-76: complete_cash_tender, which answers ret, and the cleanup
K_Tender(ret) ==
    /\ tst.pc = "tender"
    /\ tst' = [tst EXCEPT !.actions = IF ret THEN @ \o <<"complete_cash_tender", "click_input">>
                                      ELSE Append(@, "complete_cash_tender"),
                          !.pc = "done",
                          !.outcome = IF ret THEN "passed" ELSE "failed"]
    /\ UNCHANGED <<ui, clicks, dm, ap, ct, lg>>
    /\ UNCHANGED keypadVars

\* the names of the items on the screen
ItemNames ==
    {<<"c">>, <<"F", "F">>, <<"D", "i", "s", "c", "o", "u", "n", "t">>}

\* the texts of an item's children: prices with and without "$" and ",",
\* a negative one, a quantity, a text with a point that is not a number
ChildLists ==
    {<<>>,
     <<<<"$", "1", ".", "5">>, <<"-", "0", ".", "5">>>>,
     <<<<"-", "0", ".", "5">>, <<"n", ".", "a">>>>,
     <<<<"2">>, <<"1", ",", "0">>, <<"3">>>>}

BasketItems == {[name |-> name, children |-> children] :
                   name \in ItemNames, children \in ChildLists}

Baskets == UNION {[1 .. n -> BasketItems] : n \in 0 .. MaxItems}

\* the scenario records: with and without an expected price
PricedScenarios ==
    {[scenario_name |-> PyStr(promotion_cash_sale),
      scenario_data |-> [found |-> TRUE,
                         rec |-> [NoRecord EXCEPT !.expected_price = expected_price]]] :
        expected_price \in {PyStr(<<>>), PyFloat(1000)}}

InitBasket ==
    /\ KeypadIdle
    /\ clicks = <<>>
    /\ ap = apIdle
    /\ ct = ctIdle
    /\ lg = lgIdle
    /\ dm = dmIdle
    /\ \E pos \in PricedScenarios : tst = promoIdle(pos)
    /\ \E basketList \in BOOLEAN, items \in Baskets :
          /\ (~basketList => items = <<>>)
          /\ ui = [basketList |-> basketList, items |-> items]

NextBasket ==
    \/ \E throws \in ThrowPoints : K_Basket(throws)
    \/ \E ret \in BOOLEAN : K_Loyalty(ret)
    \/ \E ret \in BOOLEAN : K_Tender(ret)

SpecBasket == InitBasket /\ [][NextBasket]_vars

\* the baskets that differ from items in what one item shows as prices and
\* quantities; every basket with the same names is reached from items by
\* such changes, one item after the other, and every scenario record by a
\* change of the expected price
OtherPrices(items) ==
    {[items EXCEPT ![i].children = children] :
        i \in 1 .. Len(items), children \in ChildLists}

\* the promotion test after its basket check on another basket and with
\* another scenario record, all else being equal
OtherRun(pos, items, throws) ==
    AfterBasket(promoIdle(pos),
                check_basket_with_promotion_analysis(pos, [ui EXCEPT !.items = items], throws),
                items)

\* two runs have the same verdict, the same driver actions, and are at the
\* same place of the test
SameCourse(t1, t2) ==
    /\ t1.data.basket_verified = t2.data.basket_verified
    /\ t1.actions = t2.actions
    /\ t1.pc = t2.pc
    /\ t1.outcome = t2.outcome

(***************************************************************************)
(* C23: the basket snapshot is never reconciled against the expected       *)
(* price. A run of the basket check on a basket that differs only in the   *)
(* prices shown (and so in the total computed), or with another            *)
(* expected_price in the scenario record, ends with the same verdict       *)
(* basket_verified, the same driver actions and at the same place of the   *)
(* test; and the driver actions that follow are handle_loyalty_popup and   *)
(* complete_cash_tender whatever was computed.                             *)
(***************************************************************************)
C23_VerdictIgnoresPrices ==
    [][/\ tst.pc = "basket" =>
            /\ \A pos \in PricedScenarios :
                  SameCourse(OtherRun(pos, ui.items, tst'.throws), tst')
            /\ \A items \in OtherPrices(ui.items) :
                  SameCourse(OtherRun(tst.pos, items, tst'.throws), tst')
       /\ tst.pc = "loyalty" => tst'.actions = Append(tst.actions, "handle_loyalty_popup")
       /\ tst.pc = "tender" =>
            IsPrefix(Append(tst.actions, "complete_cash_tender"), tst'.actions)]_vars

\* the test passed on a basket whose total is not the expected price of its
\* scenario
C23_Witness ==
    /\ tst.outcome = "passed"
    /\ tst.data.basket_verified
    /\ tst.pos.scenario_data.rec.expected_price = PyFloat(1000)
    /\ tst.data.total_amount = 950
    /\ Len(ui.items) = 2

\* the children of an item that are taken as a price, and as a quantity
PricedAt(children) ==
    {k \in 1 .. Len(children) : PriceLike(children[k]) /\ PriceValue(children[k]).ok}

DigitsAt(children) == {k \in 1 .. Len(children) : IsDigit(children[k])}

\* the last of a non-empty set of positions
LastOf(S) == CHOOSE k \in S : \A j \in S : j <= k

\* the items that have a price, and those of them that count as promotion:
\* a negative price, or "promotion", "bonus" or "discount" in the name
Priced(lines) == {i \in 1 .. Len(lines) : lines[i].price.has}

Promoted(items, lines) ==
    {i \in Priced(lines) :
        \/ lines[i].price.n < 0
        \/ \E keyword \in {promotion, bonus, discount} : Contains(keyword, Lower(items[i].name))}

\* the sum of the prices of the items in S
RECURSIVE SumOver(_, _)
SumOver(lines, S) ==
    IF S = {} THEN 0
    ELSE lines[LastOf(S)].price.n + SumOver(lines, S \ {LastOf(S)})

(***************************************************************************)
(* C24: the basket heuristic of the promotion test. For every basket that  *)
(* was analysed: the price of an item is the value of its last child text  *)
(* that contains "$", "." or "," and converts to a number once "$" and     *)
(* "," are removed; its quantity is the value of its last all-digit child  *)
(* text; total_amount is the sum of the prices of the items that have one; *)
(* promotion_amount is the sum of the prices of the priced items whose     *)
(* price is negative or whose name contains "promotion", "bonus" or        *)
(* "discount", in any case of letters; promotion_found holds exactly when  *)
(* there is such an item or a name contains "promotion", "bonus", "ff" or  *)
(* "discount"; and the summary reports a discount only when                *)
(* promotion_amount is negative.                                           *)
(***************************************************************************)
C24_BasketHeuristic ==
    tst.data.basket_verified =>
        /\ Len(tst.lines) = Len(ui.items)
        /\ tst.data.total_items = Len(ui.items)
        /\ \A i \in 1 .. Len(ui.items) :
              /\ tst.lines[i].price.has = (PricedAt(ui.items[i].children) # {})
              /\ tst.lines[i].price.has =>
                    tst.lines[i].price.n
                      = PriceValue(ui.items[i].children[LastOf(PricedAt(ui.items[i].children))]).n
              /\ tst.lines[i].quantity.has = (DigitsAt(ui.items[i].children) # {})
              /\ tst.lines[i].quantity.has =>
                    tst.lines[i].quantity.n
                      = DigitsVal(ui.items[i].children[LastOf(DigitsAt(ui.items[i].children))])
        /\ tst.data.total_amount = SumOver(tst.lines, Priced(tst.lines))
        /\ tst.data.promotion_amount = SumOver(tst.lines, Promoted(ui.items, tst.lines))
        /\ tst.data.promotion_found =
              \/ Promoted(ui.items, tst.lines) # {}
              \/ \E i \in 1 .. Len(ui.items), keyword \in {promotion, bonus, ff, discount} :
                    Contains(keyword, Lower(ui.items[i].name))
        /\ tst.data.summary.discounted = (tst.data.promotion_amount < 0)
        /\ tst.data.summary.discounted =>
              tst.data.summary.discount = tst.data.promotion_amount

\* a basket of two items was analysed: the first with two prices, of which
\* the last, a negative one, counts; the second, named "FF", with a price
\* written with a comma between two quantities
C24_Witness ==
    /\ tst.data.basket_verified
    /\ Len(ui.items) = 2
    /\ ui.items[1].children = <<<<"$", "1", ".", "5">>, <<"-", "0", ".", "5">>>>
    /\ ui.items[2].name = <<"F", "F">>
    /\ tst.lines[2].quantity = [has |-> TRUE, n |-> 3]
    /\ tst.data.total_amount = 950
    /\ tst.data.promotion_amount = 0 - 50
    /\ tst.data.promotion_found
    /\ tst.data.summary.discounted
    /\ tst.data.summary.discount = 0 - 50

====
